---- MODULE Spec2Model ----
(***************************************************************************)
(* TerraSim staged phase solver: backend/solver/phase_solver.py            *)
(* solve_phases(request, should_stop) modelled as a state machine.         *)
(*                                                                         *)
(* Numbers.  Load fractions, step sizes and the tolerance are floats in    *)
(* the source; here they are fixed-point integers with One = 1.0 and a     *)
(* resolution of 1/64 of 1e-4.  "x *= 0.5" is x \div 2 and "x *= 1.2" is    *)
(* (x * 6) \div 5.                                                         *)
(*                                                                         *)
(* Mesh.  A column of two T6 elements, one per polygon, stacked on three   *)
(* node levels; dof 2n is the x-dof and 2n+1 the y-dof of node n, as in    *)
(* the source.  Stress and strain are the triples (xx, yy, xy).            *)
(*                                                                         *)
(* Heights are counted in half element heights, so that the Gauss points   *)
(* of element e, at its mid-height, lie at height 2e-1 and the water level *)
(* at an element boundary.  Unit weights are per half element height, and  *)
(* a stress is a unit weight times a height.  Poisson's ratio is in        *)
(* ten-thousandths; K0 and the sine and cosine of a friction angle are     *)
(* exact fractions.                                                        *)
(*                                                                         *)
(* ReturnMapSpec runs the constitutive law of one Gauss point on its own,  *)
(* on trial stresses and strengths chosen in its initial state.            *)
(*                                                                         *)
(* The Newton solve is not computed.  Each phase has a limit load, an      *)
(* input of the model: an attempt converges iff its target load fraction   *)
(* does not exceed it (and max_iterations lets it converge at all).  The   *)
(* displacement increment and iteration count of a converged attempt are   *)
(* chosen nondeterministically.                                            *)
(***************************************************************************)
EXTENDS Integers, Sequences, FiniteSets, TLC

VARIABLES
    settings,                  \* request.settings
    phases,                    \* request.phases
    num_mesh_elements,         \* len(request.mesh.elements)
    limit_load,                \* per phase: the largest load fraction that converges
    du_step,                   \* displacement increment of a converged step, per free dof
    water_y,                   \* height of request.water_level, NoWater without one
    node_x,                    \* request.mesh.nodes: the x coordinate of every node
    nan_residual,              \* an attempt beyond the limit load yields NaN or Inf
    rm_trial,                  \* a Gauss point handed to the constitutive law alone
    rm_out,                    \* what the constitutive law returned for rm_trial
    stop,                      \* the flag should_stop() reads
    pc,                        \* position of the generator
    events,                    \* the events yielded so far
    elem_props_all,            \* per element: material, K, F_grav, D, ...
    total_displacement,
    element_stress_state,
    element_strain_state,
    element_yield_state,
    element_pwp_excess_state,
    phase_results,
    phase_idx,                 \* 1-based position in request.phases
    current_u_incremental,
    current_m_stage,
    step_size,
    step_count,
    phase_step_points,
    phase_stress_history,
    phase_strain_history,
    phase_yield_history,
    phase_pwp_excess_history,
    delta_F_external,          \* the external force increment of the phase
    phase_start_state,         \* history: state each phase started from
    phase_commit_state,        \* history: state committed by each phase
    phase_materials,           \* history: the materials each phase ran with
    cancel_mark                \* history: the loop state when should_stop() first
                               \* returned true, <<>> before

probeVars  == <<rm_trial, rm_out>>
inputVars  == <<settings, phases, num_mesh_elements, limit_load, du_step, water_y,
                node_x, nan_residual, probeVars>>
globalVars == <<total_displacement, element_stress_state, element_strain_state,
                element_yield_state, element_pwp_excess_state>>
stepVars   == <<current_u_incremental, current_m_stage, step_size, step_count,
                phase_step_points, phase_stress_history, phase_strain_history,
                phase_yield_history, phase_pwp_excess_history>>
histVars   == <<phase_start_state, phase_commit_state, phase_materials, cancel_mark>>
vars == <<inputVars, stop, pc, events, elem_props_all, globalVars,
          phase_results, phase_idx, stepVars, delta_F_external, histVars>>

----------------------------------------------------------------------------
(* Fixed-point numbers *)

One == 64 * 10000

\* a retry that does not shrink the step
Half_Stuck(x) == x

Half(x) == x \div 2

Grow(x) == (x * 6) \div 5

TolMin == One \div 1000
TolMax == One \div 10
StepMin == One \div 1000
StepMax == One
LoadFracMin == One \div 100
LoadFracMax == One
MinIterations == 1
MaxIterations == 100
MinSteps == 1
MaxSteps == 1000
MaxElements == 4000
DefaultMaxDesired == 100

PlasticFloor == One \div 10000
SrmFloor == One \div 1000
SrmMinStep == One \div 10000
PlasticSuccess == (One \div 1000) * 999
SrmCap == 100 * One

----------------------------------------------------------------------------
(* Mesh *)

NumGP == 3

ElemIds == {1, 2}
NodeIds == {0, 1, 2}
GPs == 1..NumGP
Dofs == {2 * n : n \in NodeIds} \cup {2 * n + 1 : n \in NodeIds}

\* element_materials[e].polygon_id
PolygonOf(e) == e - 1

\* the lower and the upper node level of element e
ElemNodes(e) == <<e - 1, e>>

full_fixed == {0}
normal_fixed == {1}

\* request.mesh.nodes: every node on the same vertical line
StraightColumn == [n \in NodeIds |-> 0]

\* request.mesh.nodes: a column leaning to the right, node 1 between the sides
InclinedColumn == [n \in NodeIds |-> n]

Zero3 == <<0, 0, 0>>

ZeroDofs == [d \in Dofs |-> 0]

----------------------------------------------------------------------------
(* Materials and element matrices *)

LINEAR_ELASTIC == "linear_elastic"
MOHR_COULOMB == "mohr_coulomb"

DRAINED == "drained"
UNDRAINED_A == "undrained_a"
UNDRAINED_B == "undrained_b"
UNDRAINED_C == "undrained_c"
NON_POROUS == "non_porous"

\* a fraction num/den
Frac(num, den) == [num |-> num, den |-> den]

\* k0_x = None, passed to the kernel as -1.0
NoK0 == Frac(-1, 1)

\* a friction angle by its sine and cosine, sin/den and cos/den
Angle(sin, cos, den) == [sin |-> sin, cos |-> cos, den |-> den]

\* frictionAngle = 0 (or None)
ZeroAngle == Angle(0, 1, 1)

\* the angle of the 3-4-5 triangle, about 36.87 degrees
Angle345 == Angle(3, 4, 5)

NuScale == 10000

\* models.Material: E is the modulus the drainage type selects, gamma the
\* unsaturated and gamma_sat the saturated unit weight (0 for None), nu is
\* Poisson's ratio in ten-thousandths
SoilMaterial(id, E, gamma, gamma_sat, model, drainage, nu, k0_x, phi, c, su) ==
    [id |-> id, E |-> E, gamma |-> gamma, gamma_sat |-> gamma_sat,
     material_model |-> model, drainage_type |-> drainage, nu |-> nu,
     k0_x |-> k0_x, phi |-> phi, c |-> c, su |-> su]

\* a drained linear-elastic material without strength data
Material(id, E, gamma) ==
    SoilMaterial(id, E, gamma, 0, LINEAR_ELASTIC, DRAINED, 0, NoK0, ZeroAngle, 0, 0)

\* the material the mesh generator bound to every element
MeshMaterial == Material("mat_1", 1, 2)

\* request.materials: the library the overrides are looked up in; it holds
\* "mat_1" as edited after the mesh was generated
request_materials ==
    <<Material("mat_2", 2, 3), Material("mat_1", 3, 2),
      SoilMaterial("soil_k0", 2, 1800, 2000, MOHR_COULOMB, DRAINED, 3000,
                   Frac(7, 10), Angle345, 500, 0),
      SoilMaterial("soil_phi", 2, 1700, 1900, MOHR_COULOMB, UNDRAINED_A, 3000,
                   NoK0, Angle345, 500, 0),
      SoilMaterial("soil_nu", 2, 1600, 0, LINEAR_ELASTIC, DRAINED, 2500,
                   NoK0, ZeroAngle, 0, 0),
      SoilMaterial("soil_cap", 2, 2400, 0, LINEAR_ELASTIC, NON_POROUS, 4995,
                   NoK0, ZeroAngle, 0, 0),
      SoilMaterial("clay_c", 2, 1500, 1600, MOHR_COULOMB, UNDRAINED_C, 0,
                   NoK0, ZeroAngle, 0, 300),
      SoilMaterial("soft_mc", 2, 3, 0, MOHR_COULOMB, DRAINED, 3000,
                   NoK0, Angle345, 0, 0),
      SoilMaterial("clay_b", 2, 1500, 1600, MOHR_COULOMB, UNDRAINED_B, 3000,
                   NoK0, Angle345, 500, 300)>>

\* material_map = {m.id: m for m in request.materials}; None is NoMaterial
NoMaterial == Material("", 0, 0)

material_map(mat_id) ==
    LET hits == {i \in 1..Len(request_materials) : request_materials[i].id = mat_id}
    IN  IF hits = {} THEN NoMaterial
        ELSE request_materials[CHOOSE i \in hits : \A j \in hits : j <= i]

\* compute_element_matrices_t6: K, F_grav and D of an element of unit size
compute_element_matrices_t6(mat) ==
    [K |-> mat.E, F_grav |-> 0 - mat.gamma, D |-> mat.E]

GammaW == 981

\* request.water_level is None
NoWater == -1

\* the height of the Gauss points of element e
GPHeight(e) == 2 * e - 1

\* element_t6.py lines 191-196 and k0_procedure.py lines 71-77: the steady
\* pore pressure at the Gauss points of element e
PwpStatic(e, mat) ==
    IF /\ mat.drainage_type \notin {UNDRAINED_C, NON_POROUS}
       /\ water_y # NoWater
       /\ GPHeight(e) < water_y
    THEN 0 - GammaW * (water_y - GPHeight(e))
    ELSE 0

ElemProps(e, mat, orig) ==
    LET m == compute_element_matrices_t6(mat)
    IN  [id |-> e, polygon_id |-> PolygonOf(e), material |-> mat,
         original_material |-> orig, K |-> m.K, F_grav |-> m.F_grav, D |-> m.D,
         pwp |-> PwpStatic(e, mat)]

----------------------------------------------------------------------------
(* Requests *)

Phase(id, type, parent, act, ovr, reset) ==
    [id |-> id, phase_type |-> type, parent_id |-> parent,
     active_polygon_indices |-> act, material_overrides |-> ovr,
     reset_displacements |-> reset, active_load_ids |-> {}]

\* the phase ph with the loads ids active
WithLoads(ph, ids) == [ph EXCEPT !.active_load_ids = ids]

K0 == "k0_procedure"
PLASTIC == "plastic"
SAFETY == "safety_analysis"
NoParent == "none"

\* K0, then two Plastic branches of the same parent
TreeRequest ==
    <<Phase("A", K0, NoParent, {0, 1}, {}, FALSE),
      WithLoads(Phase("B", PLASTIC, "A", {0, 1}, {<<0, "mat_2">>}, FALSE), {"pl_1"}),
      WithLoads(Phase("C", PLASTIC, "A", {0, 1}, {}, TRUE), {"ll_1"})>>

\* an override with the library's "mat_1", then an excavation of polygon 1
ExcavationRequest ==
    <<WithLoads(Phase("A", PLASTIC, NoParent, {0, 1}, {<<0, "mat_1">>}, FALSE),
                {"pl_1"}),
      WithLoads(Phase("B", PLASTIC, "A", {0}, {}, FALSE), {"pl_1"})>>

\* a Safety phase whose parent is not the phase run just before it
SafetyRequest ==
    <<WithLoads(Phase("A", PLASTIC, NoParent, {0, 1},
                      {<<1, "mat_2">>, <<0, "mat_9">>}, FALSE), {"pl_2", "ll_1"}),
      WithLoads(Phase("B", PLASTIC, "A", {0, 1}, {}, FALSE), {"pl_2"}),
      WithLoads(Phase("S", SAFETY, "A", {0, 1}, {}, FALSE), {"pl_1", "pl_2"})>>

\* a K0 phase of the lower polygon alone, run after a Plastic phase
LateK0Request ==
    <<Phase("A", PLASTIC, NoParent, {0, 1}, {}, FALSE),
      Phase("B", K0, "A", {0}, {}, FALSE)>>

K0Request == <<Phase("A", K0, NoParent, {0, 1}, {}, FALSE)>>

PlasticRequest == <<Phase("A", PLASTIC, NoParent, {0, 1}, {}, FALSE)>>

SafetyOnlyRequest == <<Phase("S", SAFETY, NoParent, {0, 1}, {}, FALSE)>>

\* a cohesionless Mohr-Coulomb material in polygon 0, then a phase without it
YieldRequest ==
    <<WithLoads(Phase("A", PLASTIC, NoParent, {0, 1}, {<<0, "soft_mc">>}, FALSE),
                {"pl_2", "pl_9", "ll_2"}),
      WithLoads(Phase("B", PLASTIC, "A", {0, 1}, {}, FALSE), {"pl_2", "ll_1"})>>

\* the lower polygon alone, then a fill of the upper polygon
FillRequest ==
    <<Phase("A", PLASTIC, NoParent, {0}, {}, FALSE),
      WithLoads(Phase("B", PLASTIC, "A", {0, 1}, {}, FALSE), {"pl_1"})>>

\* a K0 phase of both polygons, then an excavation of polygon 1
K0ExcavationRequest ==
    <<Phase("A", K0, NoParent, {0, 1}, {}, FALSE),
      WithLoads(Phase("B", PLASTIC, "A", {0}, {}, FALSE), {"pl_2"})>>

\* a phase that resets the displacements on its commit, and a phase after it
ResetRequest ==
    <<Phase("A", PLASTIC, NoParent, {0, 1}, {}, FALSE),
      Phase("B", PLASTIC, "A", {0, 1}, {}, TRUE),
      Phase("C", PLASTIC, "B", {0, 1}, {}, FALSE)>>

\* an undrained soil in polygon 0, then a phase that returns it to the drained
\* baseline material
DrainRequest ==
    <<Phase("A", PLASTIC, NoParent, {0, 1}, {<<0, "soil_phi">>}, FALSE),
      Phase("B", PLASTIC, "A", {0, 1}, {}, FALSE)>>

StagedRequests ==
    {TreeRequest, ExcavationRequest, SafetyRequest, LateK0Request, YieldRequest,
     FillRequest, DrainRequest}

\* models.PointLoad, models.LineLoad: a load id with its force (fx, fy)
Load(id, fx, fy) == [id |-> id, fx |-> fx, fy |-> fy]

\* request.point_loads
point_loads == {Load("pl_1", 0, -50), Load("pl_2", 30, -20), Load("pl_3", 7, 0)}

\* request.line_loads
line_loads == {Load("ll_1", 3, -6), Load("ll_2", 0, -9)}

\* mesh.point_load_assignments, node ids 1-based; "pl_3" has no assignment
point_load_assignments ==
    {[point_load_id |-> "pl_1", assigned_node_id |-> 3],
     [point_load_id |-> "pl_2", assigned_node_id |-> 2]}

\* mesh.line_load_assignments: the side edge of the column, its corners on the
\* levels 0 and 2 and its midpoint on level 1; "ll_2" has no assignment
line_load_assignments ==
    {[line_load_id |-> "ll_1", edge_nodes |-> <<1, 3, 2>>]}

\* the height of node level n
NodeHeight(n) == 2 * n

\* a K0 phase that assigns the library's soils a and b to the two polygons
SoilK0Request(a, b) == <<Phase("A", K0, NoParent, {0, 1}, {<<0, a>>, <<1, b>>}, FALSE)>>

\* the same K0 phase, then a Plastic phase that keeps the soils
SoilPlasticRequest(a, b) ==
    <<Phase("A", K0, NoParent, {0, 1}, {<<0, a>>, <<1, b>>}, FALSE),
      Phase("B", PLASTIC, "A", {0, 1}, {<<0, a>>, <<1, b>>}, FALSE)>>

SoilRequests ==
    {SoilK0Request("soil_k0", "soil_phi"), SoilK0Request("soil_nu", "soil_cap"),
     SoilK0Request("clay_c", "soil_k0"), SoilK0Request("soil_phi", "soil_nu"),
     SoilPlasticRequest("soil_phi", "soil_k0"), SoilPlasticRequest("clay_c", "soil_cap"),
     SoilK0Request("clay_b", "soil_k0")}

\* request.water_level: none, at the base, between the elements, at the surface
WaterLevels == {NoWater, 0, 2, 4}

SingleRequests == {PlasticRequest, SafetyOnlyRequest}

Settings(tol, maxit, mind, maxd, step, frac, steps) ==
    [tolerance |-> tol, max_iterations |-> maxit,
     min_desired_iterations |-> mind, max_desired_iterations |-> maxd,
     initial_step_size |-> step, max_load_fraction |-> frac, max_steps |-> steps]

Nominal == Settings(One \div 100, 60, 3, 15, One \div 2, One \div 2, 2)

\* settings of the single-phase requests
NominalSettings ==
    {[Nominal EXCEPT !.initial_step_size = step, !.max_steps = 1] :
        step \in {One, One \div 2, PlasticSuccess}}
    \cup {[Nominal EXCEPT !.initial_step_size = StepMin, !.max_steps = 4]}
    \cup {[Nominal EXCEPT !.max_iterations = MinIterations, !.max_steps = 1]}

\* settings of the staged requests
StagedSettings == {[Nominal EXCEPT !.initial_step_size = One \div 2, !.max_steps = 1]}

\* limit loads: nothing converges, 0.75, 0.999, the full load, 1.5 times the
\* load, everything converges
LimitLoads == {0, (One \div 4) * 3, PlasticSuccess, One, (One \div 2) * 3, SrmCap}

StagedLimitLoads == {0, (One \div 4) * 3, One, (One \div 2) * 3}

MaxDu == 1

TrialCohesion == 540

MeanUnit == 720

ShearUnit == 20

\* the displacement increments a converged Newton solve may return per free dof
DuChoices == 1..MaxDu

LimitLoadsFor(phs, loads) ==
    {l \in [1..Len(phs) -> loads \cup {0}] :
        \A i \in 1..Len(phs) : phs[i].phase_type = K0 => l[i] = 0}

\* every rule of the validation at, just inside and just outside its bounds
BoundarySettings ==
    {[Nominal EXCEPT !.tolerance = t] : t \in {TolMin - 1, TolMin, TolMax, TolMax + 1}}
    \cup {[Nominal EXCEPT !.max_iterations = i] :
             i \in {MinIterations - 1, MinIterations, MaxIterations, MaxIterations + 1}}
    \cup {[Nominal EXCEPT !.initial_step_size = s] :
             s \in {StepMin - 1, StepMin, StepMax, StepMax + 1}}
    \cup {[Nominal EXCEPT !.max_load_fraction = f] :
             f \in {LoadFracMin - 1, LoadFracMin, LoadFracMax, LoadFracMax + 1}}
    \cup {[Nominal EXCEPT !.max_steps = n] :
             n \in {MinSteps - 1, MinSteps, MaxSteps, MaxSteps + 1}}
    \cup {[Nominal EXCEPT !.min_desired_iterations = a, !.max_desired_iterations = b] :
             a \in {0, 3, 15, 16}, b \in {0, 15}}
    \cup {[Nominal EXCEPT !.tolerance = TolMax + 1, !.max_load_fraction = f] :
             f \in {LoadFracMin - 1, LoadFracMin}}

----------------------------------------------------------------------------
(* Events *)

Event(type, ph, content) == [type |-> type, phase |-> ph, content |-> content]

Log(ph, tag) == Event("log", ph, tag)

\* the elements of a set of integers in ascending order
SortedSeq(S) ==
    CHOOSE q \in [1..Cardinality(S) -> S] :
        \A i, j \in 1..Cardinality(S) : i < j => q[i] < q[j]

----------------------------------------------------------------------------
(* 0. Settings validation *)

\* "x or d" of Python: a zero counts as missing
OrDefault(x, d) == IF x = 0 THEN d ELSE x

IterMismatch(s) ==
    OrDefault(s.min_desired_iterations, 0)
        > OrDefault(s.max_desired_iterations, DefaultMaxDesired)

ValidationRules(s, n) ==
    <<[code |-> "VAL_1001", bad |-> s.tolerance < TolMin \/ s.tolerance > TolMax],
      [code |-> "VAL_1002",
       bad |-> s.max_iterations < MinIterations \/ s.max_iterations > MaxIterations],
      [code |-> "VAL_1003",
       bad |-> s.initial_step_size < StepMin \/ s.initial_step_size > StepMax],
      [code |-> "VAL_1004",
       bad |-> s.max_load_fraction < LoadFracMin \/ s.max_load_fraction > LoadFracMax],
      [code |-> "VAL_1005", bad |-> s.max_steps < MinSteps \/ s.max_steps > MaxSteps],
      [code |-> "VAL_1006", bad |-> IterMismatch(s)],
      [code |-> "VAL_1102", bad |-> n > MaxElements]>>

IsBad(r) == r.bad

validation_errors(s, n) == SelectSeq(ValidationRules(s, n), IsBad)

BlockedResult ==
    [phase_id |-> IF Len(phases) > 0 THEN phases[1].id ELSE "error",
     success |-> FALSE, displacements |-> <<>>, stresses |-> <<>>]

----------------------------------------------------------------------------
(* State *)

GPConst(v) == [e \in ElemIds |-> [g \in GPs |-> v]]

\* the state carried from phase to phase
GlobalState ==
    [u |-> total_displacement, stress |-> element_stress_state,
     strain |-> element_strain_state, yield |-> element_yield_state,
     pwp_excess |-> element_pwp_excess_state]

\* lines 318-400: the material bound to every element once the material step
\* of a phase is done
BoundMaterials == [e \in ElemIds |-> elem_props_all[e].material]

NoStepState ==
    /\ current_u_incremental = ZeroDofs
    /\ current_m_stage = 0
    /\ step_size = 0
    /\ step_count = 0
    /\ phase_step_points = <<>>
    /\ phase_stress_history = GPConst(Zero3)
    /\ phase_strain_history = GPConst(Zero3)
    /\ phase_yield_history = GPConst(FALSE)
    /\ phase_pwp_excess_history = GPConst(0)

\* the solver runs; no Gauss point is probed
NoProbe == <<>>

InitState ==
    /\ stop = FALSE
    /\ pc = "validate"
    /\ events = <<>>
    /\ elem_props_all = [e \in ElemIds |-> ElemProps(e, MeshMaterial, MeshMaterial)]
    /\ total_displacement = ZeroDofs
    /\ element_stress_state = GPConst(Zero3)
    /\ element_strain_state = GPConst(Zero3)
    /\ element_yield_state = GPConst(FALSE)
    /\ element_pwp_excess_state = GPConst(0)
    /\ phase_results = <<>>
    /\ phase_idx = 1
    /\ NoStepState
    /\ phase_start_state = <<>>
    /\ phase_commit_state = <<>>
    /\ phase_materials = <<>>
    /\ delta_F_external = ZeroDofs
    /\ cancel_mark = <<>>

Init ==
    /\ \/ /\ settings \in NominalSettings
          /\ phases \in SingleRequests
          /\ limit_load \in LimitLoadsFor(phases, LimitLoads)
          /\ num_mesh_elements = Cardinality(ElemIds)
          /\ water_y = NoWater
          /\ node_x = StraightColumn
          /\ nan_residual = TRUE
       \/ /\ settings \in StagedSettings
          /\ phases \in StagedRequests
          /\ limit_load \in LimitLoadsFor(phases, StagedLimitLoads)
          /\ num_mesh_elements = Cardinality(ElemIds)
          /\ water_y = NoWater
          /\ node_x = StraightColumn
          /\ nan_residual = FALSE
       \/ /\ settings \in BoundarySettings
          /\ phases \in {K0Request, <<>>}
          /\ limit_load \in LimitLoadsFor(phases, {0})
          /\ num_mesh_elements \in {Cardinality(ElemIds), MaxElements, MaxElements + 1}
          /\ water_y = NoWater
          /\ node_x = StraightColumn
          /\ nan_residual = FALSE
       \/ /\ settings = Nominal
          /\ phases \in SoilRequests
          /\ limit_load \in LimitLoadsFor(phases, {0, One})
          /\ num_mesh_elements = Cardinality(ElemIds)
          /\ water_y \in WaterLevels
          /\ node_x = StraightColumn
          /\ nan_residual = FALSE
       \/ /\ settings \in StagedSettings
          /\ phases = K0ExcavationRequest
          /\ limit_load \in LimitLoadsFor(phases, {One})
          /\ num_mesh_elements = Cardinality(ElemIds)
          /\ water_y = NoWater
          /\ node_x = InclinedColumn
          /\ nan_residual = FALSE
       \/ /\ settings \in StagedSettings
          /\ phases = ResetRequest
          /\ limit_load \in LimitLoadsFor(phases, {One})
          /\ num_mesh_elements = Cardinality(ElemIds)
          /\ water_y = NoWater
          /\ node_x = StraightColumn
          /\ nan_residual = FALSE
    /\ du_step \in DuChoices
    /\ rm_trial = NoProbe
    /\ rm_out = NoProbe
    /\ InitState

phase == phases[phase_idx]

is_srm == phase.phase_type = SAFETY

----------------------------------------------------------------------------
(* solve_phases *)

\* lines 210-242: validation; a blocked run yields its logs and one result
Validate ==
    /\ pc = "validate"
    /\ LET errs == validation_errors(settings, num_mesh_elements)
       IN  IF Len(errs) > 0
           THEN /\ events' = events
                     \o [i \in 1..Len(errs) |-> Log(0, errs[i].code)]
                     \o <<Event("phase_result", 0, BlockedResult)>>
                /\ pc' = "done"
           ELSE /\ events' = events
                /\ pc' = "phase_top"
    /\ UNCHANGED <<inputVars, delta_F_external, stop, elem_props_all, globalVars, phase_results,
                   phase_idx, stepVars, histVars>>

StartsIn(evs) == {i \in 1..Len(evs) : evs[i] = Log(evs[i].phase, "start")}

\* the step state and the number of phases started when the stop was first seen
MarkCancel ==
    IF cancel_mark = <<>>
    THEN <<[step |-> stepVars, started |-> Cardinality(StartsIn(events))]>>
    ELSE cancel_mark

\* lines 307-311: the stop check before a phase
PhaseCancel ==
    /\ pc = "phase_top"
    /\ phase_idx <= Len(phases)
    /\ stop
    /\ events' = Append(events, Log(0, "cancel"))
    /\ pc' = "final"
    /\ cancel_mark' = MarkCancel
    /\ UNCHANGED <<inputVars, delta_F_external, stop, elem_props_all, globalVars, phase_results,
                   phase_idx, stepVars, phase_start_state, phase_materials,
                   phase_commit_state>>

\* line 307: the for loop is exhausted
PhasesExhausted ==
    /\ pc = "phase_top"
    /\ phase_idx > Len(phases)
    /\ pc' = "final"
    /\ UNCHANGED <<inputVars, delta_F_external, stop, events, elem_props_all, globalVars,
                   phase_results, phase_idx, stepVars, histVars>>

\* lines 322-337: revert an element whose material id differs from its original
ResetMaterial(ep) ==
    IF ep.material.id # ep.original_material.id
    THEN ElemProps(ep.id, ep.original_material, ep.original_material)
    ELSE ep

\* lines 354-396: the overrides that name a known material and a meshed polygon
EffectiveOverrides(ph) ==
    {o \in ph.material_overrides :
        /\ material_map(o[2]) # NoMaterial
        /\ \E e \in ElemIds : PolygonOf(e) = o[1]}

ApplyOverrides(props, ph) ==
    [e \in ElemIds |->
        IF \E o \in EffectiveOverrides(ph) : o[1] = props[e].polygon_id
        THEN LET o == CHOOSE x \in EffectiveOverrides(ph) : x[1] = props[e].polygon_id
             IN  ElemProps(e, material_map(o[2]), props[e].original_material)
        ELSE props[e]]

\* lines 313-400: phase-start log, material reset, material overrides
StartPhase ==
    /\ pc = "phase_top"
    /\ phase_idx <= Len(phases)
    /\ ~stop
    /\ LET reset == IF phase.phase_type # SAFETY
                    THEN [e \in ElemIds |-> ResetMaterial(elem_props_all[e])]
                    ELSE elem_props_all
           reset_count == Cardinality({e \in ElemIds : reset[e] # elem_props_all[e]})
           polys == SortedSeq({o[1] : o \in EffectiveOverrides(phase)})
       IN  /\ elem_props_all' = ApplyOverrides(reset, phase)
           /\ events' = events
                \o <<Log(phase_idx, "start")>>
                \o (IF reset_count > 0 THEN <<Log(phase_idx, "reset")>> ELSE <<>>)
                \o [i \in 1..Len(polys) |-> Log(phase_idx, "override")]
    /\ pc' = "dispatch"
    /\ UNCHANGED <<inputVars, delta_F_external, stop, globalVars, phase_results, phase_idx,
                   stepVars, histVars>>

\* the phase's result yielded a second time
ResultEvents_Twice(ph, res) ==
    <<Event("phase_result", ph, res), Event("phase_result", ph, res)>>

\* lines 467 and 943: the phase's result is yielded once
ResultEvents(ph, res) == <<Event("phase_result", ph, res)>>

\* line 344: the elements of the phase's active polygons
active_ids(ph) == {e \in ElemIds : PolygonOf(e) \in ph.active_polygon_indices}

\* models.py lines 169-181
StressResult(e, g, sig, sig_zz, pwp_steady, pwp_excess, pwp_total, yld, m) ==
    [element_id |-> e, gp_id |-> g, sig_xx |-> sig[1], sig_yy |-> sig[2],
     sig_xy |-> sig[3], sig_zz |-> sig_zz, pwp_steady |-> pwp_steady,
     pwp_excess |-> pwp_excess, pwp_total |-> pwp_total,
     is_yielded |-> yld, m_stage |-> m]

\* lines 908-912: the out-of-plane stress of a Plastic or Safety result
sig_zz_val(mat, sig, pwp_total) ==
    IF mat.drainage_type \in {NON_POROUS, UNDRAINED_C}
    THEN (mat.nu * (sig[1] + sig[2])) \div NuScale
    ELSE (mat.nu * (sig[1] + sig[2] - 2 * pwp_total)) \div NuScale + pwp_total

\* lines 889-924: one StressResult per active element and Gauss point
p_stresses(act, sig, pexc, yld, m) ==
    LET elems == SortedSeq(act)
    IN  [i \in 1..(NumGP * Len(elems)) |->
            LET e == elems[((i - 1) \div NumGP) + 1]
                g == ((i - 1) % NumGP) + 1
                ep == elem_props_all[e]
                pwp_static == ep.pwp
                pwp_total == pwp_static + pexc[e][g]
            IN  StressResult(e, g, sig[e][g],
                             sig_zz_val(ep.material, sig[e][g], pwp_total),
                             pwp_static, pexc[e][g], pwp_total, yld[e][g], m)]

\* a K0 result that lists the Gauss points of every element of the mesh
k0_p_stresses_AllElements(act, sig) ==
    LET elems == SortedSeq(ElemIds)
    IN  [i \in 1..(NumGP * Len(elems)) |->
            LET e == elems[((i - 1) \div NumGP) + 1]
                g == ((i - 1) % NumGP) + 1
                pwp_val == elem_props_all[e].pwp
            IN  StressResult(e, g, sig[e][g], sig[e][g][1], pwp_val, 0, pwp_val,
                             FALSE, One)]

\* lines 427-448: the StressResults of a K0 phase
k0_p_stresses(act, sig) ==
    LET elems == SortedSeq(act)
    IN  [i \in 1..(NumGP * Len(elems)) |->
            LET e == elems[((i - 1) \div NumGP) + 1]
                g == ((i - 1) % NumGP) + 1
                pwp_val == elem_props_all[e].pwp
            IN  StressResult(e, g, sig[e][g], sig[e][g][1], pwp_val, 0, pwp_val,
                             FALSE, One)]

NuCap == 4990

\* a K0 read from the material in place of the selection of lines 121-132
K0Coefficient_Supplied(mat) == mat.k0_x

\* k0_procedure.py lines 121-132: the K0 coefficient of a material
K0Coefficient(mat) ==
    IF mat.k0_x.num >= 0 THEN mat.k0_x
    ELSE IF mat.phi.sin > 0 THEN Frac(mat.phi.den - mat.phi.sin, mat.phi.den)
    ELSE IF mat.nu > 0
         THEN LET nu_eff == IF mat.nu < NuCap THEN mat.nu ELSE NuCap
              IN  Frac(nu_eff, NuScale - nu_eff)
    ELSE Frac(1, 2)

\* k0_procedure.py lines 105-110: the unit weight of element j over a stretch
\* that ends at height top
SampleGamma(mat, top) ==
    IF water_y # NoWater /\ top <= water_y
    THEN (IF mat.gamma_sat > 0 THEN mat.gamma_sat ELSE mat.gamma)
    ELSE mat.gamma

\* k0_procedure.py: total vertical stress under the active elements above the
\* point, pore pressure, and horizontal stress from the effective vertical one
compute_vertical_stress_k0_t6(act, props) ==
    [e \in act |->
        LET above == {j \in act : j > e}
            RECURSIVE Weight(_)
            Weight(S) == IF S = {} THEN 0
                         ELSE LET j == CHOOSE x \in S : TRUE
                              IN  2 * SampleGamma(props[j].material, 2 * j)
                                    + Weight(S \ {j})
            sigma_v_total == 0 - (SampleGamma(props[e].material, 2 * e) + Weight(above))
            pwp == PwpStatic(e, props[e].material)
            sigma_v_eff == sigma_v_total - pwp
            k0 == K0Coefficient(props[e].material)
            sigma_h_eff == (k0.num * sigma_v_eff) \div k0.den
        IN  [g \in GPs |-> <<sigma_h_eff + pwp, sigma_v_total, 0>>]]

\* lines 403-468: the K0 procedure
K0Phase ==
    /\ pc = "dispatch"
    /\ phase.phase_type = K0
    /\ LET act == active_ids(phase)
           k0_stresses == compute_vertical_stress_k0_t6(act, elem_props_all)
           stress == [e \in ElemIds |-> IF e \in act THEN k0_stresses[e]
                                        ELSE element_stress_state[e]]
           res == [phase_id |-> phase.id, success |-> TRUE,
                   displacements |-> ZeroDofs,
                   stresses |-> k0_p_stresses(act, stress),
                   reached_m_stage |-> One, step_failed_at |-> -1]
       IN  /\ element_stress_state' = stress
           /\ element_strain_state' =
                [e \in ElemIds |-> IF e \in act THEN [g \in GPs |-> Zero3]
                                   ELSE element_strain_state[e]]
           /\ element_yield_state' =
                [e \in ElemIds |-> IF e \in act THEN [g \in GPs |-> FALSE]
                                   ELSE element_yield_state[e]]
           /\ total_displacement' = ZeroDofs
           /\ phase_results' = Append(phase_results, res)
           /\ events' = events \o <<Log(phase_idx, "k0"), Log(phase_idx, "k0_done")>>
                                \o ResultEvents(phase_idx, res)
    /\ UNCHANGED <<inputVars, delta_F_external, stop, elem_props_all, element_pwp_excess_state,
                   stepVars, cancel_mark>>
    /\ phase_start_state' = Append(phase_start_state, GlobalState)
    /\ phase_materials' = Append(phase_materials, BoundMaterials)
    /\ phase_commit_state' = Append(phase_commit_state, GlobalState')
    /\ phase_idx' = phase_idx + 1
    /\ pc' = "phase_top"

StepPoint(m, d) == [m_stage |-> m, max_disp |-> d]

\* the sum of f[x] over the x in S
RECURSIVE SumOver(_, _)
SumOver(f, S) ==
    IF S = {} THEN 0
    ELSE LET x == CHOOSE y \in S : TRUE
         IN  f[x] + SumOver(f, S \ {x})

\* lines 518-520: the parent phase is the first phase of the request with the
\* parent id; the sets are empty when there is none
ParentPhases(ph) ==
    IF ph.parent_id = NoParent THEN {}
    ELSE {i \in 1..Len(phases) : phases[i].id = ph.parent_id}

parent_phase(ph) == phases[CHOOSE i \in ParentPhases(ph) : \A j \in ParentPhases(ph) : i <= j]

parent_active_indices(ph) ==
    IF ParentPhases(ph) = {} THEN {} ELSE parent_phase(ph).active_polygon_indices

\* lines 522-536: gravity of the elements activated in the phase, minus that
\* of the elements deactivated
GravityChanges(ph, props) ==
    [d \in Dofs |->
        SumOver([e \in ElemIds |->
                    LET is_active_now == props[e].polygon_id \in ph.active_polygon_indices
                        was_active_before == props[e].polygon_id \in parent_active_indices(ph)
                        on_node == \E i \in 1..2 : d = 2 * ElemNodes(e)[i] + 1
                    IN  IF ~on_node THEN 0
                        ELSE IF is_active_now /\ ~was_active_before THEN props[e].F_grav
                        ELSE IF was_active_before /\ ~is_active_now THEN 0 - props[e].F_grav
                        ELSE 0],
                ElemIds)]

\* lines 545-555: B^T sigma summed over the Gauss points of element e, each
\* with det_J * weight = 1
InternalForce(e, gp_stresses) ==
    LET a == ElemNodes(e)[1]
        b == ElemNodes(e)[2]
        sxx == SumOver([g \in GPs |-> gp_stresses[g][1]], GPs)
        syy == SumOver([g \in GPs |-> gp_stresses[g][2]], GPs)
    IN  [d \in Dofs |->
            IF d = 2 * b THEN sxx
            ELSE IF d = 2 * b + 1 THEN syy
            ELSE IF d = 2 * a THEN 0 - sxx
            ELSE IF d = 2 * a + 1 THEN 0 - syy
            ELSE 0]

\* an excavation that releases no stress
StressRelease_None(ph, props, stress) == ZeroDofs

\* lines 539-562: the internal force of the committed stress of every element
\* the phase deactivates
StressRelease(ph, props, stress) ==
    [d \in Dofs |->
        SumOver([e \in ElemIds |->
                    IF /\ props[e].polygon_id \in parent_active_indices(ph)
                       /\ props[e].polygon_id \notin ph.active_polygon_indices
                    THEN InternalForce(e, stress[e])[d]
                    ELSE 0],
                ElemIds)]

\* lines 584-589: a point load on its assigned node
PointLoadVector(lid) ==
    LET pl == CHOOSE l \in point_loads : l.id = lid
        n_idx == (CHOOSE a \in point_load_assignments :
                      a.point_load_id = lid).assigned_node_id - 1
    IN  [d \in Dofs |-> IF d = 2 * n_idx THEN pl.fx
                        ELSE IF d = 2 * n_idx + 1 THEN pl.fy
                        ELSE 0]

\* lines 592-602: a line load on the edges assigned to it, one sixth of the
\* edge force on each corner and two thirds on the midpoint
LineLoadVector(lid) ==
    LET ll == CHOOSE l \in line_loads : l.id = lid
    IN  [d \in Dofs |->
            SumOver([la \in line_load_assignments |->
                        IF la.line_load_id # lid THEN 0
                        ELSE LET n1 == la.edge_nodes[1] - 1
                                 n2 == la.edge_nodes[2] - 1
                                 n3 == la.edge_nodes[3] - 1
                                 dist == NodeHeight(n2) - NodeHeight(n1)
                                 L == IF dist < 0 THEN 0 - dist ELSE dist
                                 f == IF d % 2 = 0 THEN ll.fx * L ELSE ll.fy * L
                             IN  (IF d \div 2 = n1 THEN f \div 6 ELSE 0)
                                   + (IF d \div 2 = n2 THEN f \div 6 ELSE 0)
                                   + (IF d \div 2 = n3 THEN (f * 2) \div 3 ELSE 0)],
                    line_load_assignments)]

\* lines 581-602: the load vector of the load ids active_ids; an id without a
\* load or without an assignment adds nothing
apply_all_loads(active_ids_) ==
    [d \in Dofs |->
        SumOver([lid \in active_ids_ |->
                    (IF /\ \E l \in point_loads : l.id = lid
                        /\ \E a \in point_load_assignments : a.point_load_id = lid
                     THEN PointLoadVector(lid)[d] ELSE 0)
                    + (IF /\ \E l \in line_loads : l.id = lid
                          /\ \E a \in line_load_assignments : a.line_load_id = lid
                       THEN LineLoadVector(lid)[d] ELSE 0)],
                active_ids_)]

\* the load vector of the phase alone
LoadChanges_CurrentOnly(ph) == apply_all_loads(ph.active_load_ids)

\* lines 604-608: the load vector of the phase minus that of its parent
LoadChanges(ph) ==
    LET current_load_vectors == apply_all_loads(ph.active_load_ids)
        parent_load_vectors ==
            IF ParentPhases(ph) = {} THEN ZeroDofs
            ELSE apply_all_loads(parent_phase(ph).active_load_ids)
    IN  [d \in Dofs |-> current_load_vectors[d] - parent_load_vectors[d]]

\* lines 515-608: the external force increment of a phase
IncrementalForces(ph, props, stress) ==
    [d \in Dofs |-> GravityChanges(ph, props)[d] + StressRelease(ph, props, stress)[d]
                      + LoadChanges(ph)[d]]

\* lines 515-664: set up the MStage loop of a Plastic or Safety phase
BeginMStage ==
    /\ pc = "dispatch"
    /\ phase.phase_type # K0
    /\ current_u_incremental' = ZeroDofs
    /\ current_m_stage' = IF is_srm THEN One ELSE 0
    /\ step_size' = settings.initial_step_size
    /\ step_count' = 0
    /\ phase_step_points' = <<StepPoint(current_m_stage', 0)>>
    /\ phase_stress_history' = element_stress_state
    /\ phase_strain_history' = element_strain_state
    /\ phase_yield_history' = element_yield_state
    /\ phase_pwp_excess_history' = element_pwp_excess_state
    /\ events' = events
         \o <<Log(phase_idx, "forces")>>
         \o (IF is_srm THEN <<Log(phase_idx, "srm")>> ELSE <<>>)
         \o <<Event("step_point", phase_idx, StepPoint(current_m_stage', 0))>>
    /\ delta_F_external' = IncrementalForces(phase, elem_props_all, element_stress_state)
    /\ phase_start_state' = Append(phase_start_state, GlobalState)
    /\ phase_materials' = Append(phase_materials, BoundMaterials)
    /\ pc' = "mstage"
    /\ UNCHANGED <<inputVars, stop, elem_props_all, globalVars, phase_results,
                   phase_idx, phase_commit_state, cancel_mark>>

----------------------------------------------------------------------------
(* 6. MStage / SRM loop *)

\* line 819: an attempt can converge at the second iterate at the earliest
FirstConvergingIterate == 2

\* the iteration counts an attempt may converge at: the earliest one, the
\* thresholds of the step adaptation, and the cap
IterationChoices ==
    {k \in {FirstConvergingIterate, settings.min_desired_iterations,
            settings.max_desired_iterations + 1, settings.max_iterations} :
        FirstConvergingIterate <= k /\ k <= settings.max_iterations}

\* lines 815-819: the residual norm of an attempt at this load fraction is NaN
\* or Inf, which compares false with the tolerance at every iterate
NonFinite(target) == nan_residual /\ target > limit_load[phase_idx]

\* whether the Newton loop of an attempt at this load fraction converges
Converges(target) ==
    /\ target <= limit_load[phase_idx]
    /\ IterationChoices # {}

\* line 736: the loop condition
LoopCondition ==
    \/ ~is_srm /\ current_m_stage < One
    \/ is_srm /\ current_m_stage < SrmCap

\* line 498: the leftmost and the rightmost x of the mesh
min_x == CHOOSE x \in {node_x[n] : n \in NodeIds} : \A m \in NodeIds : x <= node_x[m]

max_x == CHOOSE x \in {node_x[n] : n \in NodeIds} : \A m \in NodeIds : node_x[m] <= x

\* fixed dofs that take every normal_fixed node, wherever it lies
fixed_dofs_AllNormalFixed ==
    {2 * n : n \in full_fixed} \cup {2 * n + 1 : n \in full_fixed}
      \cup {2 * n : n \in normal_fixed}

\* lines 494-503: both dofs of a full_fixed node, and the x-dof of a
\* normal_fixed node that lies on the left or the right side of the mesh
fixed_dofs ==
    {2 * n : n \in full_fixed} \cup {2 * n + 1 : n \in full_fixed}
      \cup {2 * n : n \in {m \in normal_fixed : node_x[m] = min_x \/ node_x[m] = max_x}}

active_node_indices(ph) ==
    UNION {{ElemNodes(e)[1], ElemNodes(e)[2]} : e \in active_ids(ph)}

free_dofs(ph) ==
    {d \in Dofs : d \notin fixed_dofs /\ (d \div 2) \in active_node_indices(ph)}

\* lines 751-755: clamp the step of a Plastic phase to the remaining fraction
ClampedStep ==
    IF ~is_srm /\ current_m_stage + step_size > One
    THEN One - current_m_stage
    ELSE step_size

\* lines 112-114: total strain of an element, B.u
EpsilonTotal(e, u) ==
    LET a == ElemNodes(e)[1]
        b == ElemNodes(e)[2]
    IN  <<u[2 * b] - u[2 * a], u[2 * b + 1] - u[2 * a + 1], 0>>

\* np.sqrt on the stresses of the model: the largest r with r * r <= n
RECURSIVE SqrtBetween(_, _, _)
SqrtBetween(n, lo, hi) ==
    IF lo = hi THEN lo
    ELSE LET mid == (lo + hi + 1) \div 2
         IN  IF mid * mid <= n THEN SqrtBetween(n, mid, hi)
             ELSE SqrtBetween(n, lo, mid - 1)

Sqrt(n) == SqrtBetween(n, 0, 46340)

\* plasticity.py lines 21-22: twice the radius of Mohr's circle (without
\* shear the root is the magnitude of the stress difference)
Diameter(sig_xx, sig_yy, sig_xy) ==
    IF sig_xy = 0
    THEN (IF sig_xx < sig_yy THEN sig_yy - sig_xx ELSE sig_xx - sig_yy)
    ELSE Sqrt((sig_xx - sig_yy) * (sig_xx - sig_yy) + 4 * sig_xy * sig_xy)

\* plasticity.py lines 10-29: the yield function f, times phi.den
mohr_coulomb_yield(sig_xx, sig_yy, sig_xy, c, phi) ==
    Diameter(sig_xx, sig_yy, sig_xy) * phi.den
        + (sig_xx + sig_yy) * phi.sin - 2 * c * phi.cos

\* a return map without the tension cut-off of lines 61-67
return_mapping_mohr_coulomb_NoCap(sig_xx_trial, sig_yy_trial, sig_xy_trial, c, phi) ==
    LET f_trial == mohr_coulomb_yield(sig_xx_trial, sig_yy_trial, sig_xy_trial, c, phi)
        s2_trial == sig_xx_trial + sig_yy_trial
        d_trial == Diameter(sig_xx_trial, sig_yy_trial, sig_xy_trial)
        q_raw == 2 * c * phi.cos - s2_trial * phi.sin
        q_target == IF q_raw < 0 THEN 0 ELSE q_raw
        d_target == q_target \div phi.den
        d_corrected == IF d_trial > 0
                       THEN (IF d_target > d_trial THEN d_trial ELSE d_target)
                       ELSE 0
    IN  IF f_trial <= 0
        THEN [sig |-> <<sig_xx_trial, sig_yy_trial, sig_xy_trial>>, yld |-> FALSE]
        ELSE IF d_trial > 0
        THEN [sig |-> <<(s2_trial * d_trial + d_corrected * (sig_xx_trial - sig_yy_trial))
                            \div (2 * d_trial),
                        (s2_trial * d_trial - d_corrected * (sig_xx_trial - sig_yy_trial))
                            \div (2 * d_trial),
                        (d_corrected * sig_xy_trial) \div d_trial>>,
              yld |-> TRUE]
        ELSE [sig |-> <<s2_trial \div 2, s2_trial \div 2, 0>>, yld |-> TRUE]

\* plasticity.py lines 32-95: radial return to the Mohr-Coulomb surface. The
\* yield tolerance 1e-6 and the radius threshold 1e-9 lie below one unit of
\* stress, s2 is twice the mean stress and d twice the radius.
return_mapping_mohr_coulomb(sig_xx_trial, sig_yy_trial, sig_xy_trial, c, phi) ==
    LET f_trial == mohr_coulomb_yield(sig_xx_trial, sig_yy_trial, sig_xy_trial, c, phi)
        d_trial == Diameter(sig_xx_trial, sig_yy_trial, sig_xy_trial)
        q_raw == 2 * c * phi.cos - (sig_xx_trial + sig_yy_trial) * phi.sin
        q_target == IF q_raw < 0 THEN 0 ELSE q_raw
        limit_s2 == (2 * c * phi.cos) \div phi.sin
        s2_trial == IF q_raw < 0 /\ phi.sin > 0
                       /\ sig_xx_trial + sig_yy_trial > limit_s2
                    THEN limit_s2
                    ELSE sig_xx_trial + sig_yy_trial
        d_target == q_target \div phi.den
        d_corrected == IF d_trial > 0
                       THEN (IF d_target > d_trial THEN d_trial ELSE d_target)
                       ELSE 0
    IN  IF f_trial <= 0
        THEN [sig |-> <<sig_xx_trial, sig_yy_trial, sig_xy_trial>>, yld |-> FALSE]
        ELSE IF d_trial > 0
        THEN [sig |-> <<(s2_trial * d_trial + d_corrected * (sig_xx_trial - sig_yy_trial))
                            \div (2 * d_trial),
                        (s2_trial * d_trial - d_corrected * (sig_xx_trial - sig_yy_trial))
                            \div (2 * d_trial),
                        (d_corrected * sig_xy_trial) \div d_trial>>,
              yld |-> TRUE]
        ELSE [sig |-> <<s2_trial \div 2, s2_trial \div 2, 0>>, yld |-> TRUE]

\* the friction angles of the model, as Pythagorean triples
Angles == {ZeroAngle, Angle345, Angle(4, 3, 5), Angle(5, 12, 13)}

\* lines 154-156 and 174-176: the angle whose tangent is tan(phi) / m_stage,
\* at the load factors where it is again an angle of the model
ReducedAngle(phi, m) ==
    CHOOSE a \in Angles : a.sin * phi.cos * m = phi.sin * a.cos * One

\* lines 121-122, 147-156 and 170-176: the strength pair handed to the return map
EffectiveStrength(mat, srm, m) ==
    LET undrained == mat.drainage_type \in {UNDRAINED_B, UNDRAINED_C}
        c_eff == IF undrained THEN mat.su ELSE mat.c
        phi_eff == IF undrained THEN ZeroAngle ELSE mat.phi
    IN  IF srm
        THEN [c |-> (c_eff * One) \div m,
              phi |-> IF phi_eff.sin > 0 THEN ReducedAngle(phi_eff, m) ELSE phi_eff]
        ELSE [c |-> c_eff, phi |-> phi_eff]

KwOverPorosity == 7333333

\* lines 716-725: the volumetric penalty of an undrained (A or B) material
Penalty(mat) ==
    IF mat.drainage_type \in {UNDRAINED_A, UNDRAINED_B}
    THEN LET nu_skel == IF mat.nu = 0 THEN 3000 ELSE mat.nu
             K_skel10 == (10 * mat.E * NuScale) \div (3 * (NuScale - 2 * nu_skel))
         IN  IF KwOverPorosity > K_skel10 THEN K_skel10 ELSE KwOverPorosity
    ELSE 0

\* lines 124-131, 145-164 and 170-183: the constitutive law of a Gauss point
\* (the singleton sets bind the trial stress and the strength as values)
Constitutive(mat, trial, srm, m) ==
    IF mat.material_model = MOHR_COULOMB
    THEN CHOOSE r \in {return_mapping_mohr_coulomb(t[1], t[2], t[3], s.c, s.phi) :
                          t \in {trial}, s \in {EffectiveStrength(mat, srm, m)}} : TRUE
    ELSE [sig |-> trial, yld |-> FALSE]

\* lines 165 and 183: the total stress of a Gauss point from its effective
\* stress new.sig and its pore pressure p
TotalStress(new, p, eps_total, p_exc_new) ==
    [sig |-> <<new.sig[1] + p, new.sig[2] + p, new.sig[3]>>,
     yld |-> new.yld, eps |-> eps_total, pexc |-> p_exc_new]

\* lines 108-192: stress update of a Gauss point in its drainage branch
StressUpdate(ep, sig_start, eps_start, pexc_start, eps_total, srm, m) ==
    LET mat == ep.material
        d_eps == [i \in 1..3 |-> eps_total[i] - eps_start[i]]
        el == [i \in 1..3 |-> ep.D * d_eps[i]]
        p_static == ep.pwp
    IN  IF mat.drainage_type = UNDRAINED_C
        THEN CHOOSE r \in {TotalStress(new, 0, eps_total, 0) :
                new \in {Constitutive(mat, [i \in 1..3 |-> sig_start[i] + el[i]],
                                      srm, m)}} : TRUE
        ELSE IF mat.drainage_type \in {UNDRAINED_A, UNDRAINED_B}
        THEN LET d_p == Penalty(mat) * (d_eps[1] + d_eps[2])
                 p_exc_new == pexc_start + d_p
                 p_total == p_static + p_exc_new
                 eff_trial == <<sig_start[1] + el[1] + d_p - p_total,
                                sig_start[2] + el[2] + d_p - p_total,
                                sig_start[3] + el[3]>>
             IN  CHOOSE r \in {TotalStress(new, p_total, eps_total, p_exc_new) :
                     new \in {Constitutive(mat, eff_trial, srm, m)}} : TRUE
        ELSE LET eff_trial == <<sig_start[1] - p_static + el[1],
                                sig_start[2] - p_static + el[2],
                                sig_start[3] + el[3]>>
             IN  CHOOSE r \in {TotalStress(new, p_static, eps_total, 0) :
                     new \in {Constitutive(mat, eff_trial, srm, m)}} : TRUE

\* lines 855-857: largest nodal magnitude (squared) of the phase's increment
MaxDisp(u) ==
    LET mags == {u[2 * n] * u[2 * n] + u[2 * n + 1] * u[2 * n + 1] : n \in NodeIds}
    IN  CHOOSE m \in mags : \A x \in mags : x <= m

\* lines 868-869: step-size adaptation after a converged step
AdaptStep(s, iteration) ==
    IF iteration < settings.min_desired_iterations THEN Grow(s)
    ELSE IF iteration > settings.max_desired_iterations THEN Half(s)
    ELSE s

StepFloor == IF is_srm THEN SrmFloor ELSE PlasticFloor

\* line 742: the step cap
StepCapReached == step_count > settings.max_steps

\* line 736 false: the loop ends normally
MStageExit ==
    /\ pc = "mstage"
    /\ ~LoopCondition
    /\ pc' = "gather"
    /\ UNCHANGED <<inputVars, delta_F_external, stop, events, elem_props_all, globalVars,
                   phase_results, phase_idx, stepVars, histVars>>

\* lines 737-740: the stop check at the top of the loop
MStageCancel ==
    /\ pc = "mstage"
    /\ LoopCondition
    /\ stop
    /\ events' = Append(events, Log(phase_idx, "cancel"))
    /\ cancel_mark' = MarkCancel
    /\ pc' = "gather"
    /\ UNCHANGED <<inputVars, delta_F_external, stop, elem_props_all, globalVars, phase_results,
                   phase_idx, stepVars, phase_start_state, phase_materials,
                   phase_commit_state>>

\* lines 742-744: the step cap
MStageMaxSteps ==
    /\ pc = "mstage"
    /\ LoopCondition
    /\ ~stop
    /\ StepCapReached
    /\ pc' = "gather"
    /\ UNCHANGED <<inputVars, delta_F_external, stop, events, elem_props_all, globalVars,
                   phase_results, phase_idx, stepVars, histVars>>

\* lines 746-748: the Safety phase's limit state
MStageSrmLimit ==
    /\ pc = "mstage"
    /\ LoopCondition
    /\ ~stop
    /\ ~StepCapReached
    /\ is_srm /\ step_size < SrmMinStep
    /\ pc' = "gather"
    /\ UNCHANGED <<inputVars, delta_F_external, stop, events, elem_props_all, globalVars,
                   phase_results, phase_idx, stepVars, histVars>>

\* a step attempt is made
AttemptGuard ==
    /\ pc = "mstage"
    /\ LoopCondition
    /\ ~stop
    /\ ~StepCapReached
    /\ ~(is_srm /\ step_size < SrmMinStep)

\* lines 750-869, converged: commit the step
StepConverged ==
    /\ AttemptGuard
    /\ Converges(current_m_stage + ClampedStep)
    /\ \E iteration \in IterationChoices :
        LET target_m_stage == current_m_stage + ClampedStep
            act == active_ids(phase)
            step_du == [d \in Dofs |-> IF d \in free_dofs(phase) THEN du_step ELSE 0]
            u_inc == [d \in Dofs |-> current_u_incremental[d] + step_du[d]]
            total_u_candidate == [d \in Dofs |-> total_displacement[d] + u_inc[d]]
            new == [e \in act |-> [g \in GPs |->
                      StressUpdate(elem_props_all[e], phase_stress_history[e][g],
                                   phase_strain_history[e][g],
                                   phase_pwp_excess_history[e][g],
                                   EpsilonTotal(e, total_u_candidate),
                                   is_srm, target_m_stage)]]
            pt == StepPoint(target_m_stage, MaxDisp(u_inc))
        IN  /\ step_count' = step_count + 1
            /\ current_u_incremental' = u_inc
            /\ current_m_stage' = target_m_stage
            /\ phase_stress_history' =
                 [e \in ElemIds |-> IF e \in act THEN [g \in GPs |-> new[e][g].sig]
                                    ELSE phase_stress_history[e]]
            /\ phase_strain_history' =
                 [e \in ElemIds |-> IF e \in act THEN [g \in GPs |-> new[e][g].eps]
                                    ELSE phase_strain_history[e]]
            /\ phase_yield_history' =
                 [e \in ElemIds |-> IF e \in act THEN [g \in GPs |-> new[e][g].yld]
                                    ELSE phase_yield_history[e]]
            /\ phase_pwp_excess_history' =
                 [e \in ElemIds |-> IF e \in act THEN [g \in GPs |-> new[e][g].pexc]
                                    ELSE phase_pwp_excess_history[e]]
            /\ phase_step_points' = Append(phase_step_points, pt)
            /\ events' = events \o <<Log(phase_idx, "step"),
                                     Event("step_point", phase_idx, pt)>>
            /\ step_size' = AdaptStep(ClampedStep, iteration)
    /\ UNCHANGED <<inputVars, delta_F_external, stop, pc, elem_props_all, globalVars, phase_results,
                   phase_idx, histVars>>

\* a retry that keeps the load fraction of the failed attempt
StepFailedRetry_Leaky ==
    /\ AttemptGuard
    /\ ~Converges(current_m_stage + ClampedStep)
    /\ ClampedStep > StepFloor
    /\ step_size' = Half(ClampedStep)
    /\ current_m_stage' = current_m_stage + ClampedStep
    /\ UNCHANGED <<inputVars, delta_F_external, stop, pc, events, elem_props_all, globalVars,
                   phase_results, phase_idx, current_u_incremental,
                   step_count, phase_step_points,
                   phase_stress_history, phase_strain_history,
                   phase_yield_history, phase_pwp_excess_history, histVars>>

\* lines 871-877: a failed attempt above the floor halves the step and retries
StepFailedRetry ==
    /\ AttemptGuard
    /\ ~Converges(current_m_stage + ClampedStep)
    /\ ClampedStep > StepFloor
    /\ step_size' = Half(ClampedStep)
    /\ UNCHANGED <<inputVars, delta_F_external, stop, pc, events, elem_props_all, globalVars,
                   phase_results, phase_idx, current_u_incremental,
                   current_m_stage, step_count, phase_step_points,
                   phase_stress_history, phase_strain_history,
                   phase_yield_history, phase_pwp_excess_history, histVars>>

\* lines 878-880: a failed attempt at the floor aborts the phase
StepFailedAbort ==
    /\ AttemptGuard
    /\ ~Converges(current_m_stage + ClampedStep)
    /\ ~(ClampedStep > StepFloor)
    /\ step_size' = ClampedStep
    /\ pc' = "gather"
    /\ UNCHANGED <<inputVars, delta_F_external, stop, events, elem_props_all, globalVars,
                   phase_results, phase_idx, current_u_incremental,
                   current_m_stage, step_count, phase_step_points,
                   phase_stress_history, phase_strain_history,
                   phase_yield_history, phase_pwp_excess_history, histVars>>

----------------------------------------------------------------------------
(* End of phase *)

\* a Safety phase judged with the comparison of the Plastic phase
PhaseSuccess_AtOne ==
    \/ ~is_srm /\ current_m_stage >= PlasticSuccess
    \/ is_srm /\ current_m_stage >= One

\* line 926
PhaseSuccess ==
    \/ ~is_srm /\ current_m_stage >= PlasticSuccess
    \/ is_srm /\ current_m_stage > One

\* the break of line 959 left out
BreaksPhaseLoop_Never(success) == FALSE

\* lines 957-959: a failed phase ends the phase loop
BreaksPhaseLoop(success) == ~success

\* a commit that ignores the reset flag
CommittedDisplacement_NoReset(ph, u_before, du_acc) ==
    [d \in Dofs |-> u_before[d] + du_acc[d]]

\* lines 946-949: the global displacement a successful phase commits
CommittedDisplacement(ph, u_before, du_acc) ==
    IF ph.reset_displacements THEN du_acc
    ELSE [d \in Dofs |-> u_before[d] + du_acc[d]]

\* lines 882-959: gather the result, yield it, commit on success
PhaseEnd ==
    /\ pc = "gather"
    /\ LET final_u_total == [d \in Dofs |-> total_displacement[d] + current_u_incremental[d]]
           success == PhaseSuccess
           phase_details ==
               [phase_id |-> phase.id, success |-> success,
                displacements |-> final_u_total,
                stresses |-> p_stresses(active_ids(phase), phase_stress_history,
                                        phase_pwp_excess_history, phase_yield_history,
                                        current_m_stage),
                reached_m_stage |-> current_m_stage,
                step_points |-> phase_step_points,
                step_failed_at |-> IF success THEN -1 ELSE step_count]
       IN  /\ phase_results' = Append(phase_results, phase_details)
           /\ events' = events \o ResultEvents(phase_idx, phase_details)
           /\ IF success
              THEN /\ total_displacement' =
                        CommittedDisplacement(phase, total_displacement,
                                              current_u_incremental)
                   /\ element_stress_state' = phase_stress_history
                   /\ element_strain_state' = phase_strain_history
                   /\ element_yield_state' = phase_yield_history
                   /\ element_pwp_excess_state' = phase_pwp_excess_history
                   /\ phase_commit_state' = Append(phase_commit_state, GlobalState')
              ELSE UNCHANGED <<globalVars, phase_commit_state>>
           /\ IF BreaksPhaseLoop(success)
              THEN /\ phase_idx' = phase_idx
                   /\ pc' = "final"
              ELSE /\ phase_idx' = phase_idx + 1
                   /\ pc' = "phase_top"
    /\ UNCHANGED <<inputVars, delta_F_external, stop, elem_props_all, stepVars, phase_start_state, phase_materials,
                   cancel_mark>>

\* lines 961-965: the final event
Final ==
    /\ pc = "final"
    /\ events' = Append(events, Event("final", 0,
            [success |-> \A i \in 1..Len(phase_results) : phase_results[i].success,
             phases |-> phase_results]))
    /\ pc' = "done"
    /\ UNCHANGED <<inputVars, delta_F_external, stop, elem_props_all, globalVars, phase_results,
                   phase_idx, stepVars, histVars>>

\* main.py line 91: the caller sets the stop flag; it is never cleared
RequestStop ==
    /\ pc # "done"
    /\ ~stop
    /\ stop' = TRUE
    /\ UNCHANGED <<inputVars, delta_F_external, pc, events, elem_props_all, globalVars,
                   phase_results, phase_idx, stepVars, histVars>>

SolverStep ==
    \/ Validate
    \/ PhaseCancel
    \/ PhasesExhausted
    \/ StartPhase
    \/ K0Phase
    \/ BeginMStage
    \/ MStageExit
    \/ MStageCancel
    \/ MStageMaxSteps
    \/ MStageSrmLimit
    \/ StepConverged
    \/ StepFailedRetry
    \/ StepFailedAbort
    \/ PhaseEnd
    \/ Final

Next == SolverStep \/ RequestStop

Spec == Init /\ [][Next]_vars

\* the caller keeps pulling events from the generator
LiveSpec == Init /\ [][Next]_vars /\ WF_vars(SolverStep)

----------------------------------------------------------------------------
(* The constitutive law on its own *)

\* Mohr-Coulomb materials with each strength pair of the kernel: (c, phi) of
\* a drained or UndrainedA material, (s_u, 0) of an UndrainedB or UndrainedC one
TrialMaterials ==
    {SoilMaterial("trial", 2, 0, 0, MOHR_COULOMB, drainage, 3000, NoK0, phi, c, su) :
        drainage \in {DRAINED, UNDRAINED_A, UNDRAINED_B, UNDRAINED_C},
        phi \in {ZeroAngle, Angle345, Angle(4, 3, 5)},
        c \in {0, TrialCohesion}, su \in {0, TrialCohesion}}

\* trial stresses <<p + a, p - a, b>>: mean stress p from tension to
\* compression, Mohr's circle of radius 0, 5 or 10 shear units and three
\* orientations
TrialStresses ==
    {<<p * MeanUnit + ab[1] * ShearUnit, p * MeanUnit - ab[1] * ShearUnit,
       ab[2] * ShearUnit>> :
        p \in -2..2,
        ab \in {<<0, 0>>, <<3, 4>>, <<-3, 4>>, <<5, 0>>, <<-5, 0>>, <<10, 0>>}}

\* target_m_stage of a Plastic step and of a Safety step at factor 1.8
TrialStages == {[srm |-> FALSE, m |-> One], [srm |-> TRUE, m |-> (One \div 5) * 9]}

\* the Gauss points probed: those whose reduced angle is an angle of the model
TrialInputs ==
    {t \in [sig : TrialStresses, mat : TrialMaterials, stage : TrialStages] :
        LET undrained == t.mat.drainage_type \in {UNDRAINED_B, UNDRAINED_C}
        IN  (t.stage.srm /\ ~undrained /\ t.mat.phi.sin > 0) =>
                \E a \in Angles :
                    a.sin * t.mat.phi.cos * t.stage.m = t.mat.phi.sin * a.cos * One}

ReturnMapInit ==
    /\ settings = Nominal
    /\ phases = <<>>
    /\ limit_load = <<>>
    /\ num_mesh_elements = Cardinality(ElemIds)
    /\ water_y = NoWater
    /\ node_x = StraightColumn
    /\ nan_residual = FALSE
    /\ du_step = 1
    /\ rm_trial \in TrialInputs
    /\ rm_out = NoProbe
    /\ InitState

\* lines 124-127, 158-161 and 177-180: the kernel hands the effective trial
\* stress of a Mohr-Coulomb Gauss point to the return map
ApplyReturnMapping ==
    /\ rm_trial # NoProbe
    /\ rm_out = NoProbe
    /\ rm_out' = Constitutive(rm_trial.mat, rm_trial.sig,
                              rm_trial.stage.srm, rm_trial.stage.m)
    /\ UNCHANGED <<settings, phases, num_mesh_elements, limit_load, du_step,
                   water_y, node_x, nan_residual, rm_trial, stop, pc, events, elem_props_all,
                   globalVars, phase_results, phase_idx, stepVars,
                   delta_F_external, histVars>>

ReturnMapNext == ApplyReturnMapping

ReturnMapSpec == ReturnMapInit /\ [][ReturnMapNext]_vars

TypeOK ==
    /\ pc \in {"validate", "phase_top", "dispatch", "mstage", "gather", "final", "done"}
    /\ stop \in BOOLEAN
    /\ phase_idx \in 1..(Len(phases) + 1)
    /\ step_count \in Nat
    /\ current_m_stage \in Nat
    /\ step_size \in Nat

----------------------------------------------------------------------------
(* The event stream *)

\* validation passed: lines 229-242 did not block the run
Accepted == Len(validation_errors(settings, num_mesh_elements)) = 0

\* positions of the events of one type
Idx(type) == {i \in 1..Len(events) : events[i].type = type}

\* positions of the events of phase p (the final event belongs to no phase)
PhaseEvents(p) == {i \in 1..Len(events) : events[i].phase = p /\ events[i].type # "final"}

\* positions of the step_point events of phase p
StepPointsOf(p) == {i \in Idx("step_point") : events[i].phase = p}

SetMax(S) == CHOOSE m \in S : \A x \in S : x <= m

SetMin(S) == CHOOSE m \in S : \A x \in S : m <= x

StrictlyIncreasing(pts) ==
    \A i, j \in 1..Len(pts) : i < j => pts[i].m_stage < pts[j].m_stage

----------------------------------------------------------------------------
(* C1: event ordering *)

\* C1: in a run with accepted settings in which should_stop() never returned
\* true, the events of each started phase begin with its start log, continue
\* with log and step_point events only and end with exactly one phase_result;
\* phases start in input order, no event of a later phase precedes the
\* phase_result of an earlier one, and exactly one final event is emitted, as
\* the last event.
C1_EventOrder ==
    (Accepted /\ cancel_mark = <<>>) =>
        /\ \A i \in 1..Len(events) :
               events[i].type \in {"log", "step_point", "phase_result", "final"}
        /\ \A i \in Idx("final") : i = Len(events)
        /\ pc = "done" => Idx("final") = {Len(events)}
        /\ \A i \in 1..Len(events) :
               events[i].type # "final" => events[i].phase \in 1..Len(phases)
        /\ \A i, j \in 1..Len(events) :
               (i < j /\ events[j].type # "final") => events[i].phase <= events[j].phase
        /\ \A p \in 1..Len(phases) :
               LET I == PhaseEvents(p)
               IN  I # {} =>
                     /\ events[SetMin(I)] = Log(p, "start")
                     /\ Cardinality({i \in I : events[i] = Log(p, "start")}) = 1
                     /\ \A i \in I : events[i].type = "phase_result" => i = SetMax(I)
                     /\ SetMax(I) < Len(events) => events[SetMax(I)].type = "phase_result"
                     /\ p > 1 => PhaseEvents(p - 1) # {}

\* a run of three phases, never cancelled, has finished
C1_Witness ==
    /\ pc = "done"
    /\ Accepted
    /\ cancel_mark = <<>>
    /\ Cardinality(Idx("phase_result")) = 3
    /\ Cardinality(Idx("step_point")) >= 4
    /\ Idx("final") # {}

----------------------------------------------------------------------------
(* C2: cancellation *)

\* C2: once should_stop() has returned true at a check point, a cancellation
\* log is yielded, no further step attempt is made, no further phase is
\* started, and no final event is ever emitted.
C2_CancelProtocol ==
    cancel_mark # <<>> =>
        /\ \E i \in Idx("log") : events[i].content = "cancel"
        /\ stepVars = cancel_mark[1].step
        /\ Cardinality(StartsIn(events)) = cancel_mark[1].started
        /\ Idx("final") = {}

----------------------------------------------------------------------------
(* C3: pre-flight validation *)

\* the rules as the claim states them, by the code of the error raised
ClaimViolations(s, n) ==
    LET rules ==
          {[code |-> "VAL_1001", bad |-> s.tolerance < TolMin \/ s.tolerance > TolMax],
           [code |-> "VAL_1002",
            bad |-> s.max_iterations < MinIterations \/ s.max_iterations > MaxIterations],
           [code |-> "VAL_1003",
            bad |-> s.initial_step_size < StepMin \/ s.initial_step_size > StepMax],
           [code |-> "VAL_1005", bad |-> s.max_steps < MinSteps \/ s.max_steps > MaxSteps],
           [code |-> "VAL_1006",
            bad |-> s.min_desired_iterations > s.max_desired_iterations],
           [code |-> "VAL_1102", bad |-> n > MaxElements]}
    IN  {r.code : r \in {x \in rules : x.bad}}

LoadFractionInRange(s) ==
    s.max_load_fraction >= LoadFracMin /\ s.max_load_fraction <= LoadFracMax

\* C3: when a rule of the pre-flight validation is violated the run yields one
\* log per violated rule, then exactly one phase_result with success = false,
\* and ends: no phase is started, no step_point and no final event is yielded.
\* Settings with every value inside or on its bounds are not blocked.
C3_PreFlight ==
    pc # "validate" =>
        LET bad == ClaimViolations(settings, num_mesh_elements)
        IN  /\ bad # {} =>
                  /\ pc = "done"
                  /\ \A c \in bad :
                         Cardinality({i \in Idx("log") : events[i].content = c}) = 1
                  /\ Idx("phase_result") = {Len(events)}
                  /\ events[Len(events)].content.success = FALSE
                  /\ \A i \in 1..(Len(events) - 1) : events[i].type = "log"
                  /\ StartsIn(events) = {}
            /\ (bad = {} /\ LoadFractionInRange(settings)) =>
                  \A i \in 1..Len(events) : events[i] # Event("phase_result", 0, BlockedResult)

----------------------------------------------------------------------------
(* C4: phase failure *)

\* the contents of the events at the positions I, in stream order
ContentsAt(I) ==
    LET q == SortedSeq(I)
    IN  [k \in 1..Len(q) |-> events[q[k]].content]

\* C4: after the phase_result of a failed phase only the final event follows;
\* the failed result is the state of the phase's last converged step (its
\* reached load fraction, step points and displacements are those of the last
\* step_point yielded); the committed global state is the one the failed phase
\* started from, and the final event lists exactly the phase_results yielded.
C4_FailureStops ==
    Accepted =>
        \A i \in Idx("phase_result") :
            ~events[i].content.success =>
                LET p == events[i].phase
                    r == events[i].content
                    pts == StepPointsOf(p)
                    last == events[SetMax(pts)].content
                IN  /\ pc \in {"final", "done"}
                    /\ \A j \in 1..Len(events) : j > i => events[j].type = "final"
                    /\ r.reached_m_stage = last.m_stage
                    /\ r.step_points = ContentsAt(pts)
                    /\ r.step_failed_at = Cardinality(pts) - 1
                    /\ MaxDisp([d \in Dofs |->
                           r.displacements[d] - phase_start_state[p].u[d]]) = last.max_disp
                    /\ GlobalState = phase_start_state[p]
                    /\ Len(phase_commit_state) = p - 1
                    /\ p > 1 => GlobalState = phase_commit_state[p - 1]
                    /\ phase_results = ContentsAt(Idx("phase_result"))
                    /\ \A f \in Idx("final") :
                           /\ events[f].content.phases = ContentsAt(Idx("phase_result"))
                           /\ events[f].content.success = FALSE

\* the second of three phases failed after a converged step and the run ended
C4_Witness ==
    /\ pc = "done"
    /\ Accepted
    /\ Len(phases) = 3
    /\ Len(phase_results) = 2
    /\ phase_results[1].success
    /\ ~phase_results[2].success
    /\ phase_results[2].step_failed_at >= 1
    /\ Idx("final") # {}

----------------------------------------------------------------------------
(* C5: state inheritance *)

\* the position of a phase's parent in request.phases
ParentIdx(p) == CHOOSE q \in 1..Len(phases) : phases[q].id = phases[p].parent_id

----------------------------------------------------------------------------
(* C6: material reset *)

\* the material the claim binds to element e in phase ph
ExpectedMaterial(e, ph) ==
    LET ovr == {o \in ph.material_overrides :
                   o[1] = PolygonOf(e) /\ material_map(o[2]) # NoMaterial}
    IN  IF ovr # {} THEN material_map((CHOOSE o \in ovr : TRUE)[2]) ELSE MeshMaterial

\* C6: after the material step of a non-Safety phase every element carries the
\* phase's override of its polygon when one is given and known, else the
\* baseline material of the mesh, with the matrices of that material, whatever
\* the earlier phases overrode.
C6_MaterialReset ==
    (pc = "dispatch" /\ phase.phase_type # SAFETY) =>
        \A e \in ElemIds :
            LET mat == ExpectedMaterial(e, phase)
                m == compute_element_matrices_t6(mat)
            IN  /\ elem_props_all[e].material = mat
                /\ elem_props_all[e].K = m.K
                /\ elem_props_all[e].F_grav = m.F_grav
                /\ elem_props_all[e].D = m.D

----------------------------------------------------------------------------
(* C7: termination *)

Finished == pc = "done" /\ Idx("final") = {Len(events)}

\* C7: a run with accepted settings finishes with its final event, whatever
\* the outcome of each step attempt and whenever the caller asks to stop.
C7_Terminates == Accepted ~> Finished

\* a Plastic or Safety phase retried down to the step floor and the run ended
C7_Witness ==
    /\ Finished
    /\ Accepted
    /\ Len(phase_results) > 0
    /\ ~phase_results[Len(phase_results)].success
    /\ step_size > 0
    /\ step_size <= StepFloor
    /\ step_size < settings.initial_step_size

----------------------------------------------------------------------------
(* C8: load fraction of a Plastic phase *)

\* C8: in a Plastic phase the load fraction starts at 0, strictly increases
\* at every committed step and never exceeds 1, and a Plastic phase is
\* reported successful only if the load fraction it reached is 1.
C8_PlasticLoadFraction ==
    /\ (pc \in {"mstage", "gather"} /\ ~is_srm) =>
           /\ phase_step_points[1].m_stage = 0
           /\ StrictlyIncreasing(phase_step_points)
           /\ \A k \in 1..Len(phase_step_points) : phase_step_points[k].m_stage <= One
           /\ current_m_stage = phase_step_points[Len(phase_step_points)].m_stage
    /\ \A i \in 1..Len(phase_results) :
           (phases[i].phase_type = PLASTIC /\ phase_results[i].success) =>
               phase_results[i].reached_m_stage = One

----------------------------------------------------------------------------
(* C9: load fraction of a Safety phase *)

\* C9: in a Safety phase the load fraction starts at 1 and strictly increases
\* at every committed step; the reached_m_stage of the phase's result is the
\* load fraction of the last step_point yielded for the phase, the largest of
\* them (1 when no step converged), and the phase is reported successful
\* exactly when it is greater than 1.
C9_SafetyFactor ==
    /\ (pc \in {"mstage", "gather"} /\ is_srm) =>
           /\ phase_step_points[1].m_stage = One
           /\ StrictlyIncreasing(phase_step_points)
           /\ Len(phase_step_points) = step_count + 1
           /\ current_m_stage = phase_step_points[Len(phase_step_points)].m_stage
    /\ \A i \in Idx("phase_result") :
           LET p == events[i].phase
               r == events[i].content
               pts == StepPointsOf(p)
           IN  (p >= 1 /\ phases[p].phase_type = SAFETY) =>
                   /\ r.reached_m_stage = events[SetMax(pts)].content.m_stage
                   /\ \A j \in pts : events[j].content.m_stage <= r.reached_m_stage
                   /\ events[SetMin(pts)].content.m_stage = One
                   /\ Cardinality(pts) = 1 => r.reached_m_stage = One
                   /\ r.success <=> r.reached_m_stage > One

\* a Safety phase that follows two other phases committed steps and succeeded
C9_Witness ==
    \E i \in Idx("phase_result") :
        /\ events[i].phase = 3
        /\ phases[3].phase_type = SAFETY
        /\ events[i].content.success
        /\ Cardinality(StepPointsOf(3)) >= 2
        /\ events[i].content.reached_m_stage > One

----------------------------------------------------------------------------
(* C10: step cap *)

\* C10: a Plastic or Safety phase commits at most max_steps load steps, and a
\* Plastic phase stopped by the cap before the load fraction reaches 1 is
\* reported failed.
C10_StepCap ==
    /\ pc \in {"mstage", "gather"} =>
           /\ step_count <= settings.max_steps
           /\ Len(phase_step_points) - 1 <= settings.max_steps
    /\ \A i \in 1..Len(phase_results) :
           (/\ phases[i].phase_type = PLASTIC
            /\ Len(phase_results[i].step_points) - 1 >= settings.max_steps
            /\ phase_results[i].reached_m_stage < One) => ~phase_results[i].success

----------------------------------------------------------------------------
(* C11: displacement carry-over *)

\* the increment a phase accumulated over its committed steps
AccumulatedDu(p) ==
    LET n == Len(phase_results[p].step_points) - 1
    IN  [d \in Dofs |-> IF d \in free_dofs(phases[p]) THEN n * du_step ELSE 0]

\* C11: a successful Plastic or Safety phase commits the increment it
\* accumulated as the global displacement when its reset_displacements flag is
\* set, and the displacement before the phase plus that increment otherwise; a
\* failed phase leaves the global displacement unchanged.
C11_DisplacementCarryOver ==
    \A p \in 1..Len(phase_results) :
        (Accepted /\ phases[p].phase_type # K0) =>
            IF phase_results[p].success
            THEN /\ p <= Len(phase_commit_state)
                 /\ phase_commit_state[p].u =
                      IF phases[p].reset_displacements THEN AccumulatedDu(p)
                      ELSE [d \in Dofs |-> phase_start_state[p].u[d] + AccumulatedDu(p)[d]]
                 /\ p = Len(phase_results) => total_displacement = phase_commit_state[p].u
            ELSE /\ Len(phase_commit_state) = p - 1
                 /\ total_displacement = phase_start_state[p].u

\* a phase with the reset flag succeeded after a phase that left displacements
C11_Witness ==
    /\ Accepted
    /\ Len(phase_results) = 3
    /\ phases[3].reset_displacements
    /\ phase_results[3].success
    /\ phase_start_state[3].u # ZeroDofs
    /\ AccumulatedDu(3) # ZeroDofs
    /\ total_displacement = AccumulatedDu(3)

----------------------------------------------------------------------------
(* C12: the K0 phase *)

\* C12: a K0 phase yields exactly one phase_result, with success = true and
\* reached_m_stage = 1, and no step_point; its result reports zero
\* displacement at every node and three StressResults for each active element
\* and none for the others; the state it commits has zero displacement, and
\* zero shear stress, zero strain and no yield at every active Gauss point.
C12_K0OneShot ==
    \A p \in 1..Len(phases) :
        (Accepted /\ phases[p].phase_type = K0 /\ p <= Len(phase_results)) =>
            LET r == phase_results[p]
                act == active_ids(phases[p])
                st == phase_commit_state[p]
                res == {i \in Idx("phase_result") : events[i].phase = p}
            IN  /\ Cardinality(res) = 1
                /\ \A i \in res : events[i].content = r
                /\ r.success = TRUE
                /\ r.reached_m_stage = One
                /\ StepPointsOf(p) = {}
                /\ \A d \in Dofs : r.displacements[d] = 0
                /\ Len(r.stresses) = NumGP * Cardinality(act)
                /\ \A e \in ElemIds :
                       Cardinality({k \in 1..Len(r.stresses) : r.stresses[k].element_id = e})
                           = IF e \in act THEN NumGP ELSE 0
                /\ \A e \in act, g \in GPs :
                       \E k \in 1..Len(r.stresses) :
                           r.stresses[k].element_id = e /\ r.stresses[k].gp_id = g
                /\ st.u = ZeroDofs
                /\ \A e \in act, g \in GPs :
                       /\ st.stress[e][g][3] = 0
                       /\ st.strain[e][g] = Zero3
                       /\ st.yield[e][g] = FALSE

\* a K0 phase of one polygon ran after a phase that had displaced the mesh
C12_Witness ==
    /\ Accepted
    /\ Len(phases) = 2
    /\ Len(phase_results) = 2
    /\ phases[2].phase_type = K0
    /\ active_ids(phases[2]) # ElemIds
    /\ phase_start_state[2].u # ZeroDofs
    /\ phase_start_state[2].strain # GPConst(Zero3)
    /\ total_displacement = ZeroDofs

----------------------------------------------------------------------------
(* C17: overall success *)

\* C17: a final event with success = true lists a successful phase_result for
\* every phase of the request.
C17_FinalSuccess ==
    \A f \in Idx("final") :
        events[f].content.success =>
            /\ Len(events[f].content.phases) = Len(phases)
            /\ \A k \in 1..Len(phases) :
                   /\ events[f].content.phases[k].phase_id = phases[k].id
                   /\ events[f].content.phases[k].success

----------------------------------------------------------------------------
(* C18: reported and committed displacements *)

\* C18: the displacements a successful Plastic or Safety phase reports are the
\* global displacements it commits, with or without reset_displacements.
C18_ReportedIsCommitted ==
    \A p \in 1..Len(phase_results) :
        (Accepted /\ phases[p].phase_type # K0 /\ phase_results[p].success) =>
            phase_results[p].displacements = phase_commit_state[p].u

----------------------------------------------------------------------------
(* C19: retry from the snapshot *)

\* the attempt made in this state does not converge
AttemptFails == AttemptGuard /\ ~Converges(current_m_stage + ClampedStep)

\* the state an attempt starts from
SnapshotVars ==
    <<current_m_stage, current_u_incremental, step_count, phase_step_points,
      phase_stress_history, phase_strain_history, phase_pwp_excess_history,
      phase_yield_history>>

\* C19: a failed step attempt changes neither the load fraction nor the
\* accumulated increment nor the step-start stress, strain, excess pore
\* pressure and yield flags, nor the committed global state; the retry runs
\* from the same snapshot with the step halved; the snapshot changes only by
\* an attempt that converges.
C19_RetryFromSnapshot ==
    [][/\ AttemptFails =>
              /\ SnapshotVars' = SnapshotVars
              /\ globalVars' = globalVars
              /\ (pc' = "mstage" /\ stop' = stop) => step_size' = Half(ClampedStep)
              /\ pc' \in {"mstage", "gather"}
       /\ (pc = "mstage" /\ SnapshotVars' # SnapshotVars) =>
              AttemptGuard /\ Converges(current_m_stage + ClampedStep)]_vars

\* after a committed step, a second failed attempt in a row is about to be made
C19_Witness ==
    /\ AttemptFails
    /\ step_count >= 1
    /\ current_u_incremental # ZeroDofs
    /\ step_size > 0
    /\ step_size * 4 <= settings.initial_step_size
    /\ ClampedStep > StepFloor

----------------------------------------------------------------------------
(* C20: step-size floor *)

\* C20: no step is attempted with a step below the floor of the phase type
\* (1e-4 Plastic, 1e-3 Safety), however the step came to be that small.
C20_StepFloor == AttemptGuard => ClampedStep >= StepFloor

----------------------------------------------------------------------------
(* C13: the K0 ratio *)

\* the K0 phase of index phase_idx - 1 has just stored its stresses
AfterK0 ==
    /\ pc = "phase_top"
    /\ phase_idx > 1
    /\ phases[phase_idx - 1].phase_type = K0

\* the coefficient the rule names for a material: the supplied K0, else
\* 1 - sin(phi) for phi > 0, else nu / (1 - nu) with nu capped at 0.499, else 0.5
SelectedK0(mat) ==
    CASE mat.k0_x # NoK0 -> mat.k0_x
      [] mat.k0_x = NoK0 /\ mat.phi # ZeroAngle ->
            Frac(mat.phi.den - mat.phi.sin, mat.phi.den)
      [] mat.k0_x = NoK0 /\ mat.phi = ZeroAngle /\ mat.nu > 0 ->
            IF mat.nu > 4990 THEN Frac(499, 501) ELSE Frac(mat.nu, 10000 - mat.nu)
      [] OTHER -> Frac(1, 2)

Abs(x) == IF x < 0 THEN 0 - x ELSE x

\* h / v equals the fraction k within 1%
RatioWithin1Percent(h, v, k) ==
    Abs(h * k.den - k.num * v) <= Abs(k.num * v) \div 100

\* the statement of C13 as written: after a K0 phase the ratio sigma_xx /
\* sigma_yy of the stored (total) stress equals the selected K0 within 1% at
\* every active Gauss point, above or below the water table
C13_StoredRatio ==
    AfterK0 =>
        \A e \in active_ids(phases[phase_idx - 1]) : \A g \in GPs :
            RatioWithin1Percent(element_stress_state[e][g][1],
                                element_stress_state[e][g][2],
                                SelectedK0(elem_props_all[e].material))

\* C13: after a K0 phase, at every active Gauss point the ratio of the
\* effective stresses, (sigma_xx - p_steady) / (sigma_yy - p_steady), equals
\* the K0 coefficient selected for the element's material (the supplied K0,
\* else 1 - sin(phi) for phi > 0, else nu / (1 - nu) with nu capped at 0.499,
\* else 0.5) up to the truncation of the horizontal stress to one unit, and the
\* shear stress is zero; the stored total stresses have that ratio where the
\* steady pore pressure is zero.
C13_EffectiveRatio ==
    AfterK0 =>
        \A e \in active_ids(phases[phase_idx - 1]) : \A g \in GPs :
            LET sig == element_stress_state[e][g]
                p == elem_props_all[e].pwp
                k == SelectedK0(elem_props_all[e].material)
                d == k.num * (sig[2] - p) - k.den * (sig[1] - p)
            IN  /\ 0 <= d /\ d < k.den
                /\ RatioWithin1Percent(sig[1] - p, sig[2] - p, k)
                /\ sig[3] = 0
                /\ p = 0 => RatioWithin1Percent(sig[1], sig[2], k)

\* a K0 phase has stored stresses below the water table for a material whose
\* K0 comes from the capped Poisson ratio and for one with pore pressure
C13_Witness ==
    /\ AfterK0
    /\ \E e \in active_ids(phases[phase_idx - 1]) :
          /\ elem_props_all[e].pwp < 0
          /\ element_stress_state[e][1][2] < elem_props_all[e].pwp
    /\ \E e \in active_ids(phases[phase_idx - 1]) :
          /\ elem_props_all[e].material.nu > NuCap
          /\ GPHeight(e) < water_y

----------------------------------------------------------------------------
(* C15: the out-of-plane stress *)

\* a phase has just appended its result; the materials are still its own
ResultJustReported ==
    /\ pc \in {"phase_top", "final"}
    /\ phase_results # <<>>

LastResult == phase_results[Len(phase_results)]

\* sigma_zz derived from a reported stress: nu (sxx + syy) for NonPorous and
\* UndrainedC, nu (sxx + syy - 2 p_total) + p_total otherwise
DerivedSigZZ(mat, r) ==
    IF mat.drainage_type = NON_POROUS \/ mat.drainage_type = UNDRAINED_C
    THEN (mat.nu * (r.sig_xx + r.sig_yy)) \div 10000
    ELSE (mat.nu * (r.sig_xx + r.sig_yy - 2 * r.pwp_total)) \div 10000 + r.pwp_total

\* C15: every StressResult of every phase type (K0, Plastic, Safety) reports
\* the sigma_zz derived for the material its element has in that phase:
\* nu (sigma_xx + sigma_yy) for NonPorous and UndrainedC materials, and
\* nu (sigma_xx + sigma_yy - 2 p_total) + p_total for the other drainage types.
C15_DerivedSigZZ ==
    ResultJustReported =>
        \A k \in 1..Len(LastResult.stresses) :
            LET r == LastResult.stresses[k]
            IN  r.sig_zz = DerivedSigZZ(elem_props_all[r.element_id].material, r)

\* the same for the results of Plastic and Safety phases only
C15_PlasticSigZZ ==
    (ResultJustReported /\ phases[Len(phase_results)].phase_type # K0) =>
        \A k \in 1..Len(LastResult.stresses) :
            LET r == LastResult.stresses[k]
            IN  r.sig_zz = DerivedSigZZ(elem_props_all[r.element_id].material, r)

----------------------------------------------------------------------------
(* C16: linear elastic elements do not yield *)

\* C16: no StressResult of an element whose material model is LinearElastic
\* in the phase of the result has is_yielded = true, in any phase, drainage
\* branch and load level.
C16_ElasticNeverYields ==
    ResultJustReported =>
        \A k \in 1..Len(LastResult.stresses) :
            LET r == LastResult.stresses[k]
            IN  elem_props_all[r.element_id].material.material_model = LINEAR_ELASTIC
                    => ~r.is_yielded

\* the same for the results of the K0 phases and of the phases that have
\* committed a step
C16_ElasticSteppedNeverYields ==
    (ResultJustReported
        /\ (phases[Len(phase_results)].phase_type = K0 \/ step_count > 0)) =>
        \A k \in 1..Len(LastResult.stresses) :
            LET r == LastResult.stresses[k]
            IN  elem_props_all[r.element_id].material.material_model = LINEAR_ELASTIC
                    => ~r.is_yielded

----------------------------------------------------------------------------
(* C14: admissibility of the return map *)

\* the yield function (times phi.den) of a stress under the strength pair the
\* kernel passes for the probed Gauss point
YieldValue(sig) ==
    LET s == EffectiveStrength(rm_trial.mat, rm_trial.stage.srm, rm_trial.stage.m)
    IN  mohr_coulomb_yield(sig[1], sig[2], sig[3], s.c, s.phi)

\* C14: for a trial stress with f above the yield tolerance (which is below
\* one unit of stress) and every strength pair the kernel passes - (c, phi),
\* strength-reduced values, the (s_u, 0) pair - return_mapping_mohr_coulomb
\* returns a stress with f <= 0 and the yield flag true; for a trial stress
\* with f not above the tolerance it returns the trial stress unchanged with
\* the yield flag false.
C14_ReturnMapAdmissible ==
    rm_out # NoProbe =>
        IF YieldValue(rm_trial.sig) > 0
        THEN rm_out.yld /\ YieldValue(rm_out.sig) <= 0
        ELSE rm_out.sig = rm_trial.sig /\ ~rm_out.yld

\* a strength-reduced frictional Gauss point in tension beyond the apex was
\* returned
C14_Witness ==
    /\ rm_out # NoProbe
    /\ rm_trial.stage.srm
    /\ LET s == EffectiveStrength(rm_trial.mat, TRUE, rm_trial.stage.m)
       IN  /\ s.phi.sin > 0 /\ s.c > 0
           /\ (rm_trial.sig[1] + rm_trial.sig[2]) * s.phi.sin > 2 * s.c * s.phi.cos
    /\ rm_trial.sig[3] # 0
    /\ rm_out.yld
    /\ rm_out.sig # rm_trial.sig

----------------------------------------------------------------------------
(* C21: the convergence criterion *)

\* the residual of the attempt made in this state falls below the tolerance
ResidualBelowTolerance ==
    AttemptGuard /\ current_m_stage + ClampedStep <= limit_load[phase_idx]

\* C21: a step attempt whose residual is below the tolerance is declared
\* converged, at the first such Newton iterate, the first iterate included:
\* for every max_iterations >= 1 accepted by the validation it commits the
\* step (unless the run is stopped).
C21_ConvergesBelowTolerance ==
    [][ResidualBelowTolerance =>
          (stop' # stop \/ current_m_stage' = current_m_stage + ClampedStep)]_vars
----------------------------------------------------------------------------
(* C22: the materials of a Safety phase *)

\* the polygons a phase overrides with a material the request knows
OverriddenPolygons(ph) ==
    {o[1] : o \in {x \in ph.material_overrides : material_map(x[2]) # NoMaterial}}

\* C22: a Safety phase runs with the materials its parent phase ran with (the
\* overrides of the parent included) on every element it does not override
\* itself, whatever phases were executed between the two.
C22_SafetyRunsWithParentMaterials ==
    \A p \in 1..Len(phase_materials) :
        (/\ phases[p].phase_type = SAFETY
         /\ phases[p].parent_id # NoParent
         /\ ParentIdx(p) < p) =>
            \A e \in ElemIds :
                PolygonOf(e) \notin OverriddenPolygons(phases[p]) =>
                    phase_materials[p][e] = phase_materials[ParentIdx(p)][e]
----------------------------------------------------------------------------
(* C23: gravity and excavation forces *)

\* the external force increment of the running phase has been computed
ForcesComputed == pc \in {"mstage", "gather"}

\* the polygon of element e is active in the parent of the running phase
ActiveInParent(e) ==
    /\ phase.parent_id # NoParent
    /\ \E q \in 1..Len(phases) : phases[q].id = phase.parent_id
    /\ PolygonOf(e) \in phases[ParentIdx(phase_idx)].active_polygon_indices

ActiveNow(e) == PolygonOf(e) \in phase.active_polygon_indices

\* the gravity load of element e at dof d: F_grav on the y-dof of its two nodes
GravityAt(e, d) ==
    IF d \in {2 * ElemNodes(e)[1] + 1, 2 * ElemNodes(e)[2] + 1}
    THEN elem_props_all[e].F_grav ELSE 0

\* the internal force of the committed stress of element e at dof d
CommittedForceAt(e, d) ==
    LET sxx == element_stress_state[e][1][1] + element_stress_state[e][2][1]
                 + element_stress_state[e][3][1]
        syy == element_stress_state[e][1][2] + element_stress_state[e][2][2]
                 + element_stress_state[e][3][2]
    IN  IF d = 2 * ElemNodes(e)[2] THEN sxx
        ELSE IF d = 2 * ElemNodes(e)[2] + 1 THEN syy
        ELSE IF d = 2 * ElemNodes(e)[1] THEN 0 - sxx
        ELSE IF d = 2 * ElemNodes(e)[1] + 1 THEN 0 - syy
        ELSE 0

\* what element e adds to the gravity and excavation part at dof d
ElementShare(e, d) ==
    IF ActiveNow(e) /\ ~ActiveInParent(e) THEN GravityAt(e, d)
    ELSE IF ActiveInParent(e) /\ ~ActiveNow(e)
         THEN CommittedForceAt(e, d) - GravityAt(e, d)
    ELSE 0

\* C23: the external force increment without its load part is, element by
\* element, + F_grav for an element active now and inactive in the parent
\* (every active element without a parent), - F_grav plus the internal force
\* of its committed stress for an element active in the parent and inactive
\* now, and nothing for an element whose activity is unchanged.
C23_GravityAndExcavationForces ==
    ForcesComputed =>
        \A d \in Dofs :
            delta_F_external[d] - LoadChanges(phase)[d]
                = ElementShare(1, d) + ElementShare(2, d)

\* a phase that excavates an element with a committed stress, and with it
\* another element that stays active
C23_Witness ==
    /\ ForcesComputed
    /\ \E e \in ElemIds :
          /\ ActiveInParent(e) /\ ~ActiveNow(e)
          /\ \E d \in Dofs : CommittedForceAt(e, d) # 0
    /\ \E e \in ElemIds : ActiveInParent(e) /\ ActiveNow(e)

\* a phase that activates an element its parent did not have
C23_FillWitness ==
    /\ ForcesComputed
    /\ \E e \in ElemIds : ActiveNow(e) /\ ~ActiveInParent(e) /\ phase.parent_id # NoParent
    /\ \E d \in Dofs : delta_F_external[d] # LoadChanges(phase)[d]

----------------------------------------------------------------------------
(* C24: load changes *)

\* the load ids of the parent of the running phase
ParentLoadIds ==
    IF /\ phase.parent_id # NoParent
       /\ \E q \in 1..Len(phases) : phases[q].id = phase.parent_id
    THEN phases[ParentIdx(phase_idx)].active_load_ids
    ELSE {}

\* the load part of the external force increment
LoadPart(d) ==
    delta_F_external[d] - (ElementShare(1, d) + ElementShare(2, d))

\* C24 as claimed: the load part is the sum of the load vectors of the loads
\* active in the phase and not in its parent, and of no other load.
C24_LoadsOfSetDifference ==
    ForcesComputed =>
        \A d \in Dofs :
            LoadPart(d) = apply_all_loads(phase.active_load_ids \ ParentLoadIds)[d]

\* C24: the load part is the load vector of the phase minus that of its
\* parent: the loads active now and not in the parent are added, the loads
\* active in the parent and not now are subtracted, a load active in both adds
\* nothing, and without a parent every active load is applied in full.
C24_LoadDifference ==
    ForcesComputed =>
        \A d \in Dofs :
            LoadPart(d) = apply_all_loads(phase.active_load_ids \ ParentLoadIds)[d]
                            - apply_all_loads(ParentLoadIds \ phase.active_load_ids)[d]

\* a phase that keeps one load of its parent and drops another one
C24_Witness ==
    /\ ForcesComputed
    /\ phase.active_load_ids \cap ParentLoadIds # {}
    /\ \E d \in Dofs : apply_all_loads(ParentLoadIds \ phase.active_load_ids)[d] # 0
    /\ \E d \in Dofs : apply_all_loads(phase.active_load_ids \cap ParentLoadIds)[d] # 0
----------------------------------------------------------------------------
(* C25: excess pore pressure *)

\* the step taken is a committed load step
StepCommitted == step_count' = step_count + 1

\* the volumetric strain increment of the committed step at a Gauss point
VolumetricIncrement(e, g) ==
    (phase_strain_history'[e][g][1] - phase_strain_history[e][g][1])
      + (phase_strain_history'[e][g][2] - phase_strain_history[e][g][2])

IsUndrainedAB(e) ==
    elem_props_all[e].material.drainage_type \in {UNDRAINED_A, UNDRAINED_B}

\* C25: a committed step leaves the excess pore pressure of a Drained,
\* NonPorous or UndrainedC Gauss point at its step-start value, and adds the
\* penalty times the volumetric strain increment to that of an UndrainedA or
\* UndrainedB Gauss point.
C25_ExcessPorePressure ==
    [][StepCommitted =>
         \A e \in active_ids(phase), g \in GPs :
             phase_pwp_excess_history'[e][g] =
                 IF IsUndrainedAB(e)
                 THEN phase_pwp_excess_history[e][g]
                        + Penalty(elem_props_all[e].material) * VolumetricIncrement(e, g)
                 ELSE phase_pwp_excess_history[e][g]]_vars

\* the undrained half of C25 alone
C25_UndrainedAccumulates ==
    [][StepCommitted =>
         \A e \in active_ids(phase), g \in GPs :
             IsUndrainedAB(e) =>
                 phase_pwp_excess_history'[e][g] =
                     phase_pwp_excess_history[e][g]
                       + Penalty(elem_props_all[e].material) * VolumetricIncrement(e, g)]_vars

\* the other half for Gauss points that start the step without excess
C25_NoExcessStaysZero ==
    [][StepCommitted =>
         \A e \in active_ids(phase), g \in GPs :
             (~IsUndrainedAB(e) /\ phase_pwp_excess_history[e][g] = 0) =>
                 phase_pwp_excess_history'[e][g] = 0]_vars
----------------------------------------------------------------------------
(* C26: steady pore pressure *)

\* the Gauss points of element e lie below the water table
BelowWater(e) == water_y # NoWater /\ GPHeight(e) < water_y

\* the steady pore pressure C26 gives the Gauss points of element e
HydrostaticOrZero(e, drainage_type) ==
    IF drainage_type \in {DRAINED, UNDRAINED_A} /\ BelowWater(e)
    THEN 0 - GammaW * (water_y - GPHeight(e))
    ELSE 0

\* C26: the steady pore pressure cached for a Gauss point is the hydrostatic
\* value for a Drained or UndrainedA material below the water table and zero
\* otherwise, also in what a K0 phase caches and reports.
C26_SteadyPorePressure ==
    /\ \A e \in ElemIds :
          elem_props_all[e].pwp =
              HydrostaticOrZero(e, elem_props_all[e].material.drainage_type)
    /\ (AfterK0 /\ ResultJustReported) =>
          \A i \in 1..Len(LastResult.stresses) :
              LET r == LastResult.stresses[i]
              IN  r.pwp_steady =
                      HydrostaticOrZero(r.element_id,
                          elem_props_all[r.element_id].material.drainage_type)

\* C26 for every material that is not UndrainedB
C26_ExceptUndrainedB ==
    \A e \in ElemIds :
        elem_props_all[e].material.drainage_type # UNDRAINED_B =>
            elem_props_all[e].pwp =
                HydrostaticOrZero(e, elem_props_all[e].material.drainage_type)
----------------------------------------------------------------------------
(* C27: the frame of a Plastic or Safety phase *)

\* the dofs of the nodes of the active elements of the running phase
AttachedDofs ==
    {d \in Dofs : \E e \in ElemIds :
        ActiveNow(e) /\ (d \div 2) \in {ElemNodes(e)[1], ElemNodes(e)[2]}}

FullFixedDofs == {d \in Dofs : (d \div 2) \in full_fixed}

\* the x-dofs of the normal_fixed nodes
RollerDofs == {d \in Dofs : d % 2 = 0 /\ (d \div 2) \in normal_fixed}

\* the x-dofs of the normal_fixed nodes on the left or the right side of the mesh
SideRollerDofs ==
    {d \in RollerDofs : \/ \A n \in NodeIds : node_x[d \div 2] <= node_x[n]
                        \/ \A n \in NodeIds : node_x[n] <= node_x[d \div 2]}

\* the increment of the phase vanishes outside Free, and the Gauss points of
\* the inactive elements are as the phase found them
FrameWith(Free) ==
    /\ free_dofs(phase) = Free
    /\ \A d \in Dofs \ Free : current_u_incremental[d] = 0
    /\ \A e \in ElemIds \ active_ids(phase) :
          /\ phase_stress_history[e] = phase_start_state[phase_idx].stress[e]
          /\ phase_strain_history[e] = phase_start_state[phase_idx].strain[e]
          /\ phase_yield_history[e] = phase_start_state[phase_idx].yield[e]
          /\ phase_pwp_excess_history[e] = phase_start_state[phase_idx].pwp_excess[e]

\* what a finished Plastic or Safety phase p committed for its inactive elements
CommitKeepsInactive(p) ==
    \A e \in ElemIds \ active_ids(phases[p]) :
        /\ phase_commit_state[p].stress[e] = phase_start_state[p].stress[e]
        /\ phase_commit_state[p].strain[e] = phase_start_state[p].strain[e]
        /\ phase_commit_state[p].yield[e] = phase_start_state[p].yield[e]
        /\ phase_commit_state[p].pwp_excess[e] = phase_start_state[p].pwp_excess[e]

\* C27 as claimed: the free set of a Plastic or Safety phase is the dofs of
\* the active elements without both dofs of every full_fixed node and the
\* x-dof of every normal_fixed node; the increment is zero outside it and the
\* Gauss-point state of the inactive elements is unchanged.
C27_FrameEveryNormalFixed ==
    /\ ForcesComputed => FrameWith((AttachedDofs \ FullFixedDofs) \ RollerDofs)
    /\ \A p \in 1..Len(phase_commit_state) :
          phases[p].phase_type # K0 => CommitKeepsInactive(p)

\* C27: the free set of a Plastic or Safety phase is the dofs of the active
\* elements without both dofs of every full_fixed node and the x-dof of every
\* normal_fixed node on the left or the right side of the mesh; the increment
\* is zero outside it and the Gauss-point state of the inactive elements is
\* unchanged.
C27_PhaseFrame ==
    /\ ForcesComputed => FrameWith((AttachedDofs \ FullFixedDofs) \ SideRollerDofs)
    /\ \A p \in 1..Len(phase_commit_state) :
          phases[p].phase_type # K0 => CommitKeepsInactive(p)

\* a committed phase that moved a normal_fixed node off the sides in x and
\* left an inactive element with the stress of its parent
C27_Witness ==
    /\ pc = "phase_top"
    /\ Len(phase_commit_state) = 2
    /\ RollerDofs # SideRollerDofs
    /\ \E d \in RollerDofs \ SideRollerDofs : total_displacement[d] # 0
    /\ \E e \in ElemIds \ active_ids(phases[2]) :
          phase_commit_state[2].stress[e] # GPConst(Zero3)[e]
----------------------------------------------------------------------------
(* C28: NaN and Inf *)

\* the attempt made in this state runs into a NaN or Inf residual
AttemptNonFinite == AttemptGuard /\ NonFinite(current_m_stage + ClampedStep)

\* C28: an attempt that meets NaN or Inf ends the phase, without a retry at a
\* smaller step, and the phase fails; no step whose residual is NaN or Inf is
\* committed.
C28_NonFiniteIsFatal ==
    [][/\ AttemptNonFinite =>
            (stop' # stop \/ (pc' = "gather" /\ ~PhaseSuccess'))
       /\ StepCommitted => ~NonFinite(current_m_stage')]_vars

\* the second half of C28 alone
C28_NonFiniteNeverCommitted ==
    [][AttemptNonFinite => current_m_stage' = current_m_stage]_vars
----------------------------------------------------------------------------
(* C29: the step-size ceiling *)

\* C29: the load-fraction increment of every step attempt is at most
\* settings.max_load_fraction, whatever the initial step size and however
\* often the step has grown.
C29_StepCeiling ==
    AttemptGuard => ClampedStep <= settings.max_load_fraction

----------------------------------------------------------------------------
(* C30: no strain increment before the first load step *)

\* a Plastic or Safety phase has started and has not moved yet
PhaseAtRest ==
    /\ pc = "mstage"
    /\ step_count = 0
    /\ current_u_incremental = ZeroDofs

\* the strain increment the kernel sees at a Gauss point before any increment
InitialStrainIncrement(e, g) ==
    [i \in 1..3 |-> EpsilonTotal(e, total_displacement)[i] - element_strain_state[e][g][i]]

\* C30: when a Plastic or Safety phase starts, the strain of the committed
\* displacement equals the committed strain at every Gauss point of an active
\* element, so that the first stress update sees no strain increment; also
\* after a commit with reset_displacements, after a K0 phase, and for
\* elements the phase activates.
C30_NoInitialStrainIncrement ==
    PhaseAtRest =>
        \A e \in active_ids(phase), g \in GPs : InitialStrainIncrement(e, g) = Zero3

\* C30 for the first phase of a run
C30_FirstPhaseAtRest ==
    (PhaseAtRest /\ phase_idx = 1) =>
        \A e \in active_ids(phase), g \in GPs : InitialStrainIncrement(e, g) = Zero3
====
